---- MODULE Spec2Model ----
(***************************************************************************)
(* A model of the chess rules engine of idle-chess (components.py) and of  *)
(* the game loop that drives it (main.py).                                 *)
(*                                                                         *)
(* Encoding.  A Space(row, col) is the integer row * BOARD_SIZE + col, so  *)
(* that the order of the integers is the tuple order of the namedtuples    *)
(* and also the iteration order of the board dictionary, which             *)
(* create_empty_board builds row by row.  A Piece is a record; the empty   *)
(* square (None in the board dictionary) is NoPiece.  A missing Space or   *)
(* promotion (None) is NoSpace or None.  An operator whose code can raise  *)
(* comes with a companion <name>_raises that tells when it does; the value *)
(* operator is only meaningful where the companion is FALSE.  A value that *)
(* is used several times is named by \E over the set that holds it alone.  *)
(***************************************************************************)
EXTENDS Integers, Sequences, FiniteSets, TLC

BOARD_SIZE == 8

BACK_RANK ==
    <<"rook", "knight", "bishop", "queen", "king", "bishop", "knight", "rook">>

\* Promotion options that include the king.
PROMOTION_OPTIONS_with_king == {"rook", "knight", "bishop", "queen", "king"}

PROMOTION_OPTIONS == {"rook", "knight", "bishop", "queen"}

PLAYERS == <<"white", "black">>

None == "None"

NoSpace == 0 - 1

NoPiece == [kind |-> None, player |-> None]

Spaces == 0 .. (BOARD_SIZE * BOARD_SIZE - 1)

Space(r, c) == r * BOARD_SIZE + c

row(s) == s \div BOARD_SIZE

col(s) == s % BOARD_SIZE

Piece(kind, player) == [kind |-> kind, player |-> player]

Move(piece, start, end, promotion) ==
    [piece |-> piece, start |-> start, end |-> end, promotion |-> promotion]

abs(n) == IF n < 0 THEN 0 - n ELSE n

Min(a, b) == IF a < b THEN a ELSE b

Max(a, b) == IF a < b THEN b ELSE a

\* list.index / tuple.index: the 0-based position of the first occurrence.
index(seq, x) ==
    (CHOOSE i \in 1 .. Len(seq) :
        seq[i] = x /\ \A j \in 1 .. (i - 1) : seq[j] # x) - 1

\* The position of the first occurrence counted from the end (seq[::-1].index).
reverse_index(seq, x) ==
    Len(seq) - (CHOOSE i \in 1 .. Len(seq) :
        seq[i] = x /\ \A j \in (i + 1) .. Len(seq) : seq[j] # x)

\* Player.perspective: absolute row to the row as the player sees it.
perspective(player, r) == IF player = "white" THEN r ELSE BOARD_SIZE - 1 - r

\* Game.player and Game.other_player, set by the constructor.
player_of(g) == PLAYERS[(g.move_num % 2) + 1]

other_player_of(g) == PLAYERS[((g.move_num + 1) % 2) + 1]

\* create_empty_board and create_board.
create_empty_board == [s \in Spaces |-> NoPiece]

create_board ==
    [s \in Spaces |->
        IF row(s) = perspective("white", 0)
            THEN Piece(BACK_RANK[col(s) + 1], "white")
        ELSE IF row(s) = perspective("white", 1) THEN Piece("pawn", "white")
        ELSE IF row(s) = perspective("black", 0)
            THEN Piece(BACK_RANK[col(s) + 1], "black")
        ELSE IF row(s) = perspective("black", 1) THEN Piece("pawn", "black")
        ELSE NoPiece]

CASTLE_RIGHTS == [p \in {"white", "black"} |-> {"kingside", "queenside"}]

(***************************************************************************)
(* Move: the derivations that do not depend on a game.                     *)
(***************************************************************************)
is_castle(m) ==
    m.piece.kind = "king" /\ abs(col(m.end) - col(m.start)) = 2

is_diagonal_135(m) ==
    row(m.end) - row(m.start) = 0 - (col(m.end) - col(m.start))

is_diagonal_45(m) ==
    row(m.end) - row(m.start) = col(m.end) - col(m.start)

is_horizontal(m) == row(m.start) = row(m.end)

is_vertical(m) == col(m.start) = col(m.end)

\* An is_en_passant that takes the captures onto a piece for en passant.
is_en_passant_onto_a_piece(m, board) ==
    /\ m.piece.kind = "pawn"
    /\ col(m.start) # col(m.end)
    /\ board[m.end] # NoPiece

is_en_passant(m, board) ==
    /\ m.piece.kind = "pawn"
    /\ col(m.start) # col(m.end)
    /\ board[m.end] = NoPiece

is_capture(m, board) == board[m.end] # NoPiece \/ is_en_passant(m, board)

type_of_castle(m) ==
    IF col(m.end) < col(m.start) THEN "queenside" ELSE "kingside"

castling_rook_space(m) ==
    LET back_rank == perspective(m.piece.player, 0)
    IN  IF type_of_castle(m) = "queenside"
            THEN Space(back_rank, index(BACK_RANK, "rook"))
            ELSE Space(back_rank,
                       BOARD_SIZE - 1 - reverse_index(BACK_RANK, "rook"))

\* A get_intervening_spaces that yields nothing on the 135-degree diagonals.
get_intervening_spaces_without_135(m) ==
    LET low_space == Min(m.start, m.end)
        high_space == Max(m.start, m.end)
        rows == row(high_space) - row(low_space) - 1
        cols == col(high_space) - col(low_space) - 1
    IN  IF is_horizontal(m)
            THEN {Space(row(low_space), col(low_space) + k) : k \in 1 .. cols}
        ELSE IF is_vertical(m)
            THEN {Space(row(low_space) + k, col(low_space)) : k \in 1 .. rows}
        ELSE IF is_diagonal_45(m)
            THEN {Space(row(low_space) + k, col(low_space) + k) :
                    k \in 1 .. Min(rows, cols)}
        ELSE {}

\* The spaces strictly between start and end, by the first direction of the
\* dictionary (horizontal, vertical, 45, 135) that the move has.  zip stops
\* at the shorter of its two ranges.
get_intervening_spaces(m) ==
    LET low_space == Min(m.start, m.end)
        high_space == Max(m.start, m.end)
        rows == row(high_space) - row(low_space) - 1
        cols == col(high_space) - col(low_space) - 1
        reverse_cols == col(low_space) - col(high_space) - 1
    IN  IF is_horizontal(m)
            THEN {Space(row(low_space), col(low_space) + k) : k \in 1 .. cols}
        ELSE IF is_vertical(m)
            THEN {Space(row(low_space) + k, col(low_space)) : k \in 1 .. rows}
        ELSE IF is_diagonal_45(m)
            THEN {Space(row(low_space) + k, col(low_space) + k) :
                    k \in 1 .. Min(rows, cols)}
        ELSE IF is_diagonal_135(m)
            THEN {Space(row(low_space) + k, col(low_space) - k) :
                    k \in 1 .. Min(rows, reverse_cols)}
        ELSE {}

\* get_intervening_spaces depends on the start and the end of the move only;
\* the table holds its value for every pair of spaces.
intervening_spaces ==
    [start \in Spaces |->
        [end \in Spaces |->
            get_intervening_spaces(Move(NoPiece, start, end, None))]]

\* A get_en_passant that gives the square the pawn has left.
get_en_passant_at_the_start(m) ==
    IF m.piece.kind = "pawn" /\ abs(row(m.end) - row(m.start)) = 2
        THEN m.start
        ELSE NoSpace


get_en_passant(m) ==
    IF m.piece.kind = "pawn" /\ abs(row(m.end) - row(m.start)) = 2
        THEN CHOOSE s \in intervening_spaces[m.start][m.end] :
                \A t \in intervening_spaces[m.start][m.end] : s <= t
        ELSE NoSpace

\* A get_lost_castling_rights in which the king's moves lose nothing.
get_lost_castling_rights_of_rooks(m) ==
    IF m.piece.kind = "rook"
        THEN IF col(m.start) = 0 THEN {"queenside"} ELSE {"kingside"}
        ELSE {}

\* A get_lost_castling_rights in which the king loses its rights by castling
\* only.
get_lost_castling_rights_of_castles(m) ==
    IF m.piece.kind = "king"
        THEN IF is_castle(m) THEN {"kingside", "queenside"} ELSE {}
    ELSE IF m.piece.kind = "rook"
        THEN IF col(m.start) = 0 THEN {"queenside"} ELSE {"kingside"}
    ELSE {}


get_lost_castling_rights(m) ==
    IF m.piece.kind = "king" THEN {"kingside", "queenside"}
    ELSE IF m.piece.kind = "rook"
        THEN IF col(m.start) = 0 THEN {"queenside"} ELSE {"kingside"}
    ELSE {}

piece_can_be_promoted(m) ==
    /\ m.piece.kind = "pawn"
    /\ row(m.end) = perspective(m.piece.player, BOARD_SIZE - 1)

\* A promote that leaves the piece as it is.
promote_keeping_the_pawn(piece, new_kind) == piece


promote(piece, new_kind) ==
    IF new_kind = None THEN piece ELSE Piece(new_kind, piece.player)

bishop_move(m) == is_diagonal_45(m) \/ is_diagonal_135(m)

rook_move(m) == is_horizontal(m) \/ is_vertical(m)

queen_move(m) == bishop_move(m) \/ rook_move(m)

knight_move(m) ==
    {abs(row(m.end) - row(m.start)), abs(col(m.end) - col(m.start))} = {1, 2}

pawn_capture(m) ==
    LET old_row == perspective(m.piece.player, row(m.start))
        new_row == perspective(m.piece.player, row(m.end))
    IN  new_row = old_row + 1 /\ abs(col(m.end) - col(m.start)) = 1

(***************************************************************************)
(* Game: the board update.  castle_rook builds the rook's move from        *)
(* whatever stands on the corner square, and update_board calls itself on  *)
(* it; a move whose piece is None raises AttributeError at move.is_castle. *)
(***************************************************************************)
castle_rook(board, m) ==
    LET start_space == castling_rook_space(m)
        end_space == Space(row(start_space),
                           index(BACK_RANK, "king") +
                           (IF type_of_castle(m) = "kingside" THEN 1
                                                             ELSE 0 - 1))
    IN  Move(board[start_space], start_space, end_space, None)

RECURSIVE update_board_raises(_, _)
update_board_raises(board, m) ==
    \/ m.piece = NoPiece
    \/ /\ is_castle(m)
       /\ update_board_raises(board, castle_rook(board, m))

RECURSIVE update_board(_, _)
update_board(board, m) ==
    LET castled == IF is_castle(m)
                       THEN update_board(board, castle_rook(board, m))
                       ELSE board
        taken == IF is_en_passant(m, castled)
                     THEN [castled EXCEPT
                              ![Space(row(m.start), col(m.end))] = NoPiece]
                     ELSE castled
    IN  [taken EXCEPT ![m.end] = promote(m.piece, m.promotion),
                      ![m.start] = NoPiece]

\* An update_castle_rights that starts again from both rights.
update_castle_rights_from_both(g, player, lost_rights) ==
    [g.castle_rights EXCEPT ![player] = {"kingside", "queenside"} \ lost_rights]

\* An update_castle_rights that takes the lost rights from both sides.
update_castle_rights_of_both_sides(g, player, lost_rights) ==
    [p \in DOMAIN g.castle_rights |-> g.castle_rights[p] \ lost_rights]


update_castle_rights(g, player, lost_rights) ==
    [g.castle_rights EXCEPT ![player] = @ \ lost_rights]

\* The fields that Game.__init__ sets on the new object; its history list is
\* modelled apart (see state_entry).
Game(board, castle_rights, en_passant, move_num, clock) ==
    [board |-> board,
     castle_rights |-> castle_rights,
     en_passant |-> en_passant,
     move_num |-> move_num,
     moves_since_pawn_move_or_capture |-> clock]

get_piece_spaces(g, player) == {s \in Spaces : g.board[s].player = player}

\* Game.move with hypothetical=True: en_passant and the clock take the
\* constructor's defaults.
hypothetical_move(g, m) ==
    Game(update_board(g.board, m), g.castle_rights, NoSpace, g.move_num, 0)

(***************************************************************************)
(* Legality.  is_legal and king_is_in_check call each other through        *)
(* king_move.  When king_is_in_check(g) tests the other side's king with a *)
(* move of two columns along a row, king_move reaches                      *)
(* game.king_is_in_check() on the same game, which comes back to the same  *)
(* place: the recursion never ends and Python raises RecursionError.       *)
(* reenters says that a tested move gets there.                            *)
(***************************************************************************)
pieces_intervene(m, g) ==
    \E s \in intervening_spaces[m.start][m.end] : g.board[s] # NoPiece

\* A pawn_move that has no en-passant target.
pawn_move_without_en_passant(m, g) ==
    IF /\ g.board[m.end] # NoPiece
       /\ g.board[m.end].player # m.piece.player
        THEN pawn_capture(m)
        ELSE LET old_row == perspective(m.piece.player, row(m.start))
                 new_row == perspective(m.piece.player, row(m.end))
             IN  /\ col(m.end) = col(m.start)
                 /\ \/ new_row = old_row + 1
                    \/ old_row = 1 /\ new_row = old_row + 2

\* A pawn_move that allows two steps forward from any row.
pawn_move_two_steps_anywhere(m, g) ==
    IF \/ /\ g.board[m.end] # NoPiece
          /\ g.board[m.end].player # m.piece.player
       \/ m.end = g.en_passant
        THEN pawn_capture(m)
        ELSE LET old_row == perspective(m.piece.player, row(m.start))
                 new_row == perspective(m.piece.player, row(m.end))
             IN  /\ col(m.end) = col(m.start)
                 /\ \/ new_row = old_row + 1
                    \/ new_row = old_row + 2


pawn_move(m, g) ==
    IF \/ /\ g.board[m.end] # NoPiece
          /\ g.board[m.end].player # m.piece.player
       \/ m.end = g.en_passant
        THEN pawn_capture(m)
        ELSE LET old_row == perspective(m.piece.player, row(m.start))
                 new_row == perspective(m.piece.player, row(m.end))
             IN  /\ col(m.end) = col(m.start)
                 /\ \/ new_row = old_row + 1
                    \/ old_row = 1 /\ new_row = old_row + 2

\* The checks of is_legal that hold for every piece.
universally_illegal(m, g) ==
    \/ g.board[m.end] # NoPiece /\ g.board[m.end].player = m.piece.player
    \/ m.start = m.end
    \/ pieces_intervene(m, g)

reenters(m, g) ==
    /\ is_castle(m)
    /\ row(m.start) = row(m.end)
    /\ type_of_castle(m) \in g.castle_rights[m.piece.player]
    /\ ~universally_illegal(m, g)

has_king(g) ==
    LET king == Piece("king", player_of(g))
    IN  \E s \in Spaces : g.board[s] = king

\* next(...) takes the first of the player's kings in the order of the board.
king_space(g) ==
    LET king == Piece("king", player_of(g))
        kings == {s \in Spaces : g.board[s] = king}
    IN  CHOOSE s \in kings : \A t \in kings : s <= t

RECURSIVE is_legal(_, _)
RECURSIVE is_legal_raises(_, _)
RECURSIVE king_is_in_check(_)
RECURSIVE king_is_in_check_raises(_)

piece_passes_through_check(m, g) ==
    \E space \in intervening_spaces[m.start][m.end] :
        king_is_in_check(
            hypothetical_move(g, Move(m.piece, m.start, space, m.promotion)))

piece_passes_through_check_raises(m, g) ==
    \E space \in intervening_spaces[m.start][m.end] :
        LET step(s) == Move(m.piece, m.start, s, m.promotion)
        IN  /\ \/ update_board_raises(g.board, step(space))
               \/ king_is_in_check_raises(hypothetical_move(g, step(space)))
            /\ \A s \in intervening_spaces[m.start][m.end] :
                  s < space => ~king_is_in_check(hypothetical_move(g, step(s)))

\* king_move as it would be if it looked for pieces between the king and its
\* destination only, and not as far as the rook.
king_move_looks_to_destination(m, g) ==
    IF is_castle(m)
        THEN /\ row(m.start) = row(m.end)
             /\ type_of_castle(m) \in g.castle_rights[m.piece.player]
             /\ ~king_is_in_check(g)
             /\ ~piece_passes_through_check(m, g)
             /\ ~pieces_intervene(m, g)
        ELSE /\ queen_move(m)
             /\ abs(row(m.end) - row(m.start)) < 2
             /\ abs(col(m.end) - col(m.start)) < 2

\* king_move as it would be if it did not look at the castle rights.
king_move_without_rights(m, g) ==
    IF is_castle(m)
        THEN /\ row(m.start) = row(m.end)
             /\ ~king_is_in_check(g)
             /\ ~piece_passes_through_check(m, g)
             /\ ~pieces_intervene(
                    Move(m.piece, m.start, castling_rook_space(m),
                         m.promotion), g)
        ELSE /\ queen_move(m)
             /\ abs(row(m.end) - row(m.start)) < 2
             /\ abs(col(m.end) - col(m.start)) < 2

king_move(m, g) ==
    IF is_castle(m)
        THEN /\ row(m.start) = row(m.end)
             /\ type_of_castle(m) \in g.castle_rights[m.piece.player]
             /\ ~king_is_in_check(g)
             /\ ~piece_passes_through_check(m, g)
             /\ ~pieces_intervene(
                    Move(m.piece, m.start, castling_rook_space(m),
                         m.promotion), g)
        ELSE /\ queen_move(m)
             /\ abs(row(m.end) - row(m.start)) < 2
             /\ abs(col(m.end) - col(m.start)) < 2

king_move_raises(m, g) ==
    /\ is_castle(m)
    /\ row(m.start) = row(m.end)
    /\ type_of_castle(m) \in g.castle_rights[m.piece.player]
    /\ \/ king_is_in_check_raises(g)
       \/ /\ ~king_is_in_check(g)
          /\ piece_passes_through_check_raises(m, g)

is_legal(m, g) ==
    /\ ~universally_illegal(m, g)
    /\ CASE m.piece.kind = "pawn" -> pawn_move(m, g)
         [] m.piece.kind = "knight" -> knight_move(m)
         [] m.piece.kind = "bishop" -> bishop_move(m)
         [] m.piece.kind = "rook" -> rook_move(m)
         [] m.piece.kind = "queen" -> queen_move(m)
         [] m.piece.kind = "king" -> king_move(m, g)

is_legal_raises(m, g) ==
    /\ m.piece.kind = "king"
    /\ ~universally_illegal(m, g)
    /\ king_move_raises(m, g)

\* The move that king_is_in_check tests for the piece on old_space.
check_move(g, old_space, king) == Move(g.board[old_space], old_space, king, None)

king_is_in_check(g) ==
    \E king \in {king_space(g)} :
        \E old_space \in get_piece_spaces(g, other_player_of(g)) :
            /\ ~reenters(check_move(g, old_space, king), g)
            /\ is_legal(check_move(g, old_space, king), g)

\* StopIteration when the player has no king; RecursionError when the loop
\* gets to a move that reenters before it gets to a piece that gives check.
king_is_in_check_raises(g) ==
    \/ ~has_king(g)
    \/ \E king \in {king_space(g)} :
          \E k \in get_piece_spaces(g, other_player_of(g)) :
              /\ g.board[k].kind = "king"
              /\ reenters(check_move(g, k, king), g)
              /\ \A old_space \in get_piece_spaces(g, other_player_of(g)) :
                    old_space < k =>
                       \/ reenters(check_move(g, old_space, king), g)
                       \/ ~is_legal(check_move(g, old_space, king), g)

(***************************************************************************)
(* Game.find_moves.  A candidate is a pair of spaces, tried in the order   *)
(* of the board dictionary; it is yielded (once, or once per promotion)    *)
(* when it is legal and does not leave the player's king in check.         *)
(***************************************************************************)
candidate(g, old_space, new_space) ==
    Move(Piece(g.board[old_space].kind, player_of(g)),
         old_space, new_space, None)

\* outcome as it would be if find_moves did not test for check after the
\* move.
outcome_without_check_test(g, m) ==
    IF is_legal_raises(m, g) THEN "raises"
    ELSE IF ~is_legal(m, g) THEN "skips"
    ELSE IF update_board_raises(g.board, m) THEN "raises"
    ELSE "yields"

\* What find_moves does with a candidate: "raises", "yields" it, "skips"
\* it as not legal, or "continues" because the move made hypothetically
\* leaves the king in check.
outcome(g, m) ==
    LET hypothetical_state == hypothetical_move(g, m)
    IN  IF is_legal_raises(m, g) THEN "raises"
        ELSE IF ~is_legal(m, g) THEN "skips"
        ELSE IF update_board_raises(g.board, m) THEN "raises"
        ELSE IF king_is_in_check_raises(hypothetical_state) THEN "raises"
        ELSE IF king_is_in_check(hypothetical_state) THEN "continues"
        ELSE "yields"

\* Every candidate of find_moves with its outcome.
tried_moves(g) ==
    {<<pair[1], pair[2], outcome(g, candidate(g, pair[1], pair[2]))>> :
        pair \in get_piece_spaces(g, player_of(g)) \X Spaces}

\* The promotions of find_moves with the pawn also left as it is.
promotions_or_none(m) ==
    IF piece_can_be_promoted(m) THEN PROMOTION_OPTIONS \cup {None} ELSE {None}


promotions(m) == IF piece_can_be_promoted(m) THEN PROMOTION_OPTIONS ELSE {None}

\* set(find_moves()) given the outcomes: whether it raises, and the moves.
raises_in(tried) == \E t \in tried : t[3] = "raises"

moves_in(g, tried) ==
    UNION {
        LET m == candidate(g, t[1], t[2])
        IN  {Move(m.piece, m.start, m.end, promotion) :
                promotion \in promotions(m)} :
        t \in {u \in tried : u[3] = "yields"}}

find_moves_raises(g) == raises_in(tried_moves(g))

find_moves(g) == moves_in(g, tried_moves(g))

\* find_moves is a generator: the moves it has yielded when it raises are
\* those of the candidates tried before the one that raises.  Where it does
\* not raise, these are all its moves.
yielded_in(g, tried) ==
    IF ~raises_in(tried) THEN moves_in(g, tried)
    ELSE moves_in(g, {t \in tried :
            \A u \in tried :
                u[3] = "raises" =>
                    \/ t[1] < u[1]
                    \/ t[1] = u[1] /\ t[2] < u[2]})

yielded_moves(g) == yielded_in(g, tried_moves(g))

\* any(...) over find_moves() stops at the first yielded pawn move onto
\* ep_space, so only a candidate tried before that one can raise.
ep_capture_possible(g, ep_space) ==
    /\ ep_space # NoSpace
    /\ \E old_space \in get_piece_spaces(g, player_of(g)) :
          /\ g.board[old_space].kind = "pawn"
          /\ outcome(g, candidate(g, old_space, ep_space)) = "yields"

ep_capture_possible_raises(g, ep_space) ==
    /\ ep_space # NoSpace
    /\ \E tried \in {tried_moves(g)} :
          \E t \in tried :
              /\ t[3] = "raises"
              /\ \A u \in tried :
                    (/\ g.board[u[1]].kind = "pawn"
                     /\ u[2] = ep_space
                     /\ \/ u[1] < t[1]
                        \/ u[1] = t[1] /\ u[2] < t[2])
                    => u[3] # "yields"

\* The tuple that Game.__init__ appends to the history list.
state_entry(g) ==
    [board |-> g.board,
     player |-> player_of(g),
     castle_rights |-> g.castle_rights,
     en_passant |-> IF ep_capture_possible(g, g.en_passant)
                        THEN g.en_passant ELSE NoSpace]

\* A history that starts again with the new Game.
states_of_its_own(prev_states, g) == <<state_entry(g)>>

\* The history list once Game.__init__ has run for g with prev_states: the
\* list it was given, extended in place by the entry of g.
states_after(prev_states, g) == Append(prev_states, state_entry(g))

(***************************************************************************)
(* Game.move without hypothetical.  The clock is updated on the object the *)
(* method is called on (lines 165-167) before the new Game is built from   *)
(* it, and the new Game is given that object's history list itself         *)
(* (prev_states=self.states), which the constructor extends in place.      *)
(***************************************************************************)
\* A clock_after that only a pawn move sets back.
clock_after_captures_counted(g, m) ==
    IF m.piece.kind = "pawn" THEN 0
        ELSE g.moves_since_pawn_move_or_capture + 1

clock_after(g, m) ==
    IF m.piece.kind = "pawn" \/ is_capture(m, g.board)
        THEN 0
        ELSE g.moves_since_pawn_move_or_capture + 1

\* The object the method was called on, as the call leaves it.
move_self(g, m) ==
    [g EXCEPT !.moves_since_pawn_move_or_capture = clock_after(g, m)]

(***************************************************************************)
(* What the calls that look at a position leave of it.  this is the Game   *)
(* the method is called on together with the history list it holds:        *)
(* [game |-> the fields, states |-> the list].                             *)
(***************************************************************************)
\* A hypothetical move that counts the clock on the Game it is called on, as
\* the move that is not hypothetical does.
hypothetical_self_with_clock(this, m) ==
    [this EXCEPT !.game = move_self(this.game, m)]

\* Lines 158-164: the branch returns before line 165 and assigns to no
\* field; the Game it builds is given no prev_states and makes a history
\* list of its own (line 60).
hypothetical_self(this, m) == this

\* Lines 135-144: king_is_in_check binds locals only.
king_is_in_check_self(this) == this

\* The candidates of find_moves for which line 108 was reached, out of
\* those tried: the legal ones, up to the one on which find_moves raises.
hypothetical_moves_made(g, tried) ==
    IF ~raises_in(tried)
        THEN {t \in tried : t[3] \in {"yields", "continues"}}
    ELSE {t \in tried :
            /\ \/ t[3] \in {"yields", "continues"}
               \/ /\ t[3] = "raises"
                  /\ ~is_legal_raises(candidate(g, t[1], t[2]), g)
            /\ \A u \in tried :
                  u[3] = "raises" =>
                      \/ t[1] < u[1]
                      \/ t[1] = u[1] /\ t[2] <= u[2]}

\* The hypothetical moves made in turn, in the order of the candidates.
RECURSIVE after_hypothetical_moves(_, _)
after_hypothetical_moves(this, made) ==
    IF made = {} THEN this
    ELSE LET first == CHOOSE t \in made :
                          \A u \in made :
                              \/ t[1] < u[1]
                              \/ t[1] = u[1] /\ t[2] <= u[2]
         IN  after_hypothetical_moves(
                 hypothetical_self(this, candidate(this.game, first[1],
                                                   first[2])),
                 made \ {first})

\* Lines 101-108: find_moves changes the Game it is called on only through
\* the hypothetical moves it makes on it.
find_moves_self(this, tried) ==
    after_hypothetical_moves(this, hypothetical_moves_made(this.game, tried))

\* A move that leaves the move counter as it is.
move_keeping_the_turn(g, m) ==
    Game(update_board(g.board, m),
         update_castle_rights(g, player_of(g), get_lost_castling_rights(m)),
         get_en_passant(m),
         g.move_num,
         clock_after(g, m))


move(g, m) ==
    Game(update_board(g.board, m),
         update_castle_rights(g, player_of(g), get_lost_castling_rights(m)),
         get_en_passant(m),
         g.move_num + 1,
         clock_after(g, m))

move_raises(g, m) ==
    \/ update_board_raises(g.board, m)
    \/ ep_capture_possible_raises(move(g, m), get_en_passant(m))

(***************************************************************************)
(* main.py: player input.  A parsed input is the match object of           *)
(* REGEX_PATTERN, modelled by its groups: kind is the group that           *)
(* get_input_type finds, a group that did not take part in the match is    *)
(* None, and the castle group is kept as its number of letters.            *)
(***************************************************************************)
FILES == <<"a", "b", "c", "d", "e", "f", "g", "h">>

RANKS == <<"1", "2", "3", "4", "5", "6", "7", "8">>

PIECE_LETTERS == {"B", "N", "R", "Q", "K", "P"}

PIECE_DICT ==
    [letter \in PIECE_LETTERS |->
        CASE letter = "B" -> "bishop"
          [] letter = "N" -> "knight"
          [] letter = "R" -> "rook"
          [] letter = "Q" -> "queen"
          [] letter = "K" -> "king"
          [] letter = "P" -> "pawn"]

\* dict.get with a default.
PIECE_DICT_get(letter, default) ==
    IF letter \in PIECE_LETTERS THEN PIECE_DICT[letter] ELSE default

NoCoord == 0 - 1

\* list.index inside try/except ValueError, as ordinary_move uses it for the
\* rank and file of origin.
index_or_None(seq, x) ==
    IF \E i \in 1 .. Len(seq) : seq[i] = x THEN index(seq, x) ELSE NoCoord

ordinary_input(piece, from_file, from_rank, to_file, to_rank, promotion, offer) ==
    [kind |-> "ordinary_move", piece |-> piece, from_file |-> from_file,
     from_rank |-> from_rank, to_file |-> to_file, to_rank |-> to_rank,
     promotion |-> promotion, castle |-> 0, draw_offer |-> offer]

castle_input(letters, draw_offer) ==
    [kind |-> "castle", piece |-> None, from_file |-> None,
     from_rank |-> None, to_file |-> None, to_rank |-> None,
     promotion |-> None, castle |-> letters, draw_offer |-> draw_offer]

resignation_input == [castle_input(0, FALSE) EXCEPT !.kind = "resignation"]

help_input == [castle_input(0, FALSE) EXCEPT !.kind = "help"]

\* ordinary_move and get_castle build the Move that is looked up among the
\* legal moves; its start may lack a row or a column.
ordinary_move(parsed_input, player) ==
    [piece |-> Piece(PIECE_DICT_get(parsed_input.piece, "pawn"), player),
     start_row |-> index_or_None(RANKS, parsed_input.from_rank),
     start_col |-> index_or_None(FILES, parsed_input.from_file),
     end |-> Space(index(RANKS, parsed_input.to_rank),
                   index(FILES, parsed_input.to_file)),
     promotion |-> PIECE_DICT_get(parsed_input.promotion, None)]

get_castle(g, castle_type) ==
    LET offset == IF castle_type = "kingside" THEN 2 ELSE 0 - 2
        start == Space(perspective(player_of(g), 0), 4)
    IN  [piece |-> Piece("king", player_of(g)),
         start_row |-> row(start),
         start_col |-> col(start),
         end |-> Space(row(start), col(start) + offset),
         promotion |-> None]

\* make_move and make_castle, up to the call of find_move.
requested_move(parsed_input, g) ==
    IF parsed_input.kind = "castle"
        THEN get_castle(g, IF parsed_input.castle <= 2 THEN "kingside"
                                                       ELSE "queenside")
        ELSE ordinary_move(parsed_input, player_of(g))

\* find_move: the legal moves that match the request, and what the search
\* for a unique one ends in.  promoted is the answer given to promote_pawn.
matching_moves(request, legal) ==
    {m \in legal :
        /\ m.end = request.end
        /\ m.piece = request.piece
        /\ request.start_col # NoCoord => col(m.start) = request.start_col
        /\ request.start_row # NoCoord => row(m.start) = request.start_row}

moves_without_promotion(request, legal) ==
    {<<m.start, m.end>> : m \in matching_moves(request, legal)}

asks_promotion(request) ==
    /\ request.promotion = None
    /\ request.piece.kind = "pawn"
    /\ row(request.end) = perspective(request.piece.player, BOARD_SIZE - 1)

wanted_promotion(request, promoted) ==
    IF asks_promotion(request) THEN promoted ELSE request.promotion

find_move_raises_MoveError(request, legal) ==
    Cardinality(moves_without_promotion(request, legal)) # 1

\* next(...) on line 79 finds no move with the promotion asked for.
find_move_raises_StopIteration(request, legal, promoted) ==
    /\ Cardinality(moves_without_promotion(request, legal)) = 1
    /\ \A m \in matching_moves(request, legal) :
          m.promotion # wanted_promotion(request, promoted)

find_move(request, legal, promoted) ==
    CHOOSE m \in matching_moves(request, legal) :
        m.promotion = wanted_promotion(request, promoted)

\* A number_of_repetitions that leaves the current entry out.
number_of_repetitions_before_now(history) ==
    Cardinality({i \in 1 .. Len(history) - 1 :
                    history[i] = history[Len(history)]})

\* A number_of_repetitions that compares the boards only.
number_of_repetitions_of_the_board(history) ==
    Cardinality({i \in 1 .. Len(history) :
                    history[i].board = history[Len(history)].board})

number_of_repetitions(history) ==
    Cardinality({i \in 1 .. Len(history) : history[i] = history[Len(history)]})

(***************************************************************************)
(* Inputs of the model.  typed is what a player types to name one legal    *)
(* move in full (piece letter, square of origin, destination, promotion);  *)
(* Openings are the lines that the players enter first, each a legal game  *)
(* from the standard start.                                                *)
(***************************************************************************)
letter_of(kind) == CHOOSE letter \in PIECE_LETTERS : PIECE_DICT[letter] = kind

typed(m) ==
    ordinary_input(letter_of(m.piece.kind),
                   FILES[col(m.start) + 1], RANKS[row(m.start) + 1],
                   FILES[col(m.end) + 1], RANKS[row(m.end) + 1],
                   IF m.promotion = None THEN None
                                         ELSE letter_of(m.promotion),
                   FALSE)

\* A line of an opening that names a move in full and offers no draw.
line(piece, from_file, from_rank, to_file, to_rank) ==
    ordinary_input(piece, from_file, from_rank, to_file, to_rank, None, FALSE)

Openings == {
    \* StandardStart: no prepared line
    <<>>,
    \* RookTakenAndGone: g1f3 g8f6 e2e3 f6e4 f1e2 e4f2 a2a3 f2h1 a3a4 h1f2
    <<line("N", "g", "1", "f", "3"),
      line("N", "g", "8", "f", "6"),
      line(None, "e", "2", "e", "3"),
      line("N", "f", "6", "e", "4"),
      line("B", "f", "1", "e", "2"),
      line("N", "e", "4", "f", "2"),
      line(None, "a", "2", "a", "3"),
      line("N", "f", "2", "h", "1"),
      line(None, "a", "3", "a", "4"),
      line("N", "h", "1", "f", "2")>>,
    \* KnightInTheCorner: g1f3 g8f6 e2e3 f6e4 f1e2 e4f2 a2a3 f2h1
    <<line("N", "g", "1", "f", "3"),
      line("N", "g", "8", "f", "6"),
      line(None, "e", "2", "e", "3"),
      line("N", "f", "6", "e", "4"),
      line("B", "f", "1", "e", "2"),
      line("N", "e", "4", "f", "2"),
      line(None, "a", "2", "a", "3"),
      line("N", "f", "2", "h", "1")>>,
    \* KingsTwoApart: a2a4 g8f6 e2e4 f6e4 f2f3 e4f2 b2b4 f2h1 h2h3 e7e5 f1c4 e8e7 d1e2 e7f6 c4d5 f6f5 e2a6 f5f4 a6d6 f4g3 a1a2 g3g2 d5c6
    <<line(None, "a", "2", "a", "4"),
      line("N", "g", "8", "f", "6"),
      line(None, "e", "2", "e", "4"),
      line("N", "f", "6", "e", "4"),
      line(None, "f", "2", "f", "3"),
      line("N", "e", "4", "f", "2"),
      line(None, "b", "2", "b", "4"),
      line("N", "f", "2", "h", "1"),
      line(None, "h", "2", "h", "3"),
      line(None, "e", "7", "e", "5"),
      line("B", "f", "1", "c", "4"),
      line("K", "e", "8", "e", "7"),
      line("Q", "d", "1", "e", "2"),
      line("K", "e", "7", "f", "6"),
      line("B", "c", "4", "d", "5"),
      line("K", "f", "6", "f", "5"),
      line("Q", "e", "2", "a", "6"),
      line("K", "f", "5", "f", "4"),
      line("Q", "a", "6", "d", "6"),
      line("K", "f", "4", "g", "3"),
      line("R", "a", "1", "a", "2"),
      line("K", "g", "3", "g", "2"),
      line("B", "d", "5", "c", "6")>>,
    \* KingsTwoApartInCheck: a2a4 g8f6 e2e4 f6e4 f2f3 e4f2 b2b4 f2h1 h2h3 e7e5 f1c4 e8e7 d1e2 e7f6 c4d5 f6f5 e2a6 f5f4 a6d6 f4g3 a1a2 g3g2 f3f4
    <<line(None, "a", "2", "a", "4"),
      line("N", "g", "8", "f", "6"),
      line(None, "e", "2", "e", "4"),
      line("N", "f", "6", "e", "4"),
      line(None, "f", "2", "f", "3"),
      line("N", "e", "4", "f", "2"),
      line(None, "b", "2", "b", "4"),
      line("N", "f", "2", "h", "1"),
      line(None, "h", "2", "h", "3"),
      line(None, "e", "7", "e", "5"),
      line("B", "f", "1", "c", "4"),
      line("K", "e", "8", "e", "7"),
      line("Q", "d", "1", "e", "2"),
      line("K", "e", "7", "f", "6"),
      line("B", "c", "4", "d", "5"),
      line("K", "f", "6", "f", "5"),
      line("Q", "e", "2", "a", "6"),
      line("K", "f", "5", "f", "4"),
      line("Q", "a", "6", "d", "6"),
      line("K", "f", "4", "g", "3"),
      line("R", "a", "1", "a", "2"),
      line("K", "g", "3", "g", "2"),
      line(None, "f", "3", "f", "4")>>,
    \* BothWingsOpen: e2e4 e7e5 g1f3 g8f6 f1c4 f8c5 d2d3 d7d6 c1e3 c8e6 b1c3 b8c6 d1d2 d8d7
    <<line(None, "e", "2", "e", "4"),
      line(None, "e", "7", "e", "5"),
      line("N", "g", "1", "f", "3"),
      line("N", "g", "8", "f", "6"),
      line("B", "f", "1", "c", "4"),
      line("B", "f", "8", "c", "5"),
      line(None, "d", "2", "d", "3"),
      line(None, "d", "7", "d", "6"),
      line("B", "c", "1", "e", "3"),
      line("B", "c", "8", "e", "6"),
      line("N", "b", "1", "c", "3"),
      line("N", "b", "8", "c", "6"),
      line("Q", "d", "1", "d", "2"),
      line("Q", "d", "8", "d", "7")>>,
    \* BothWingsOpenBlack: e2e4 e7e5 g1f3 g8f6 f1c4 f8c5 d2d3 d7d6 c1e3 c8e6 b1c3 b8c6 d1d2 d8d7 O-O
    <<line(None, "e", "2", "e", "4"),
      line(None, "e", "7", "e", "5"),
      line("N", "g", "1", "f", "3"),
      line("N", "g", "8", "f", "6"),
      line("B", "f", "1", "c", "4"),
      line("B", "f", "8", "c", "5"),
      line(None, "d", "2", "d", "3"),
      line(None, "d", "7", "d", "6"),
      line("B", "c", "1", "e", "3"),
      line("B", "c", "8", "e", "6"),
      line("N", "b", "1", "c", "3"),
      line("N", "b", "8", "c", "6"),
      line("Q", "d", "1", "d", "2"),
      line("Q", "d", "8", "d", "7"),
      castle_input(2, FALSE)>>,
    \* TransitAttacked: e2e4 b7b6 f1a6 c8a6 g1f3 e7e6
    <<line(None, "e", "2", "e", "4"),
      line(None, "b", "7", "b", "6"),
      line("B", "f", "1", "a", "6"),
      line("B", "c", "8", "a", "6"),
      line("N", "g", "1", "f", "3"),
      line(None, "e", "7", "e", "6")>>,
    \* KingInCheck: e2e4 e7e5 g1f3 g8f6 f1c4 f6e4 f3e5 d8e7 e5f3 e4c3
    <<line(None, "e", "2", "e", "4"),
      line(None, "e", "7", "e", "5"),
      line("N", "g", "1", "f", "3"),
      line("N", "g", "8", "f", "6"),
      line("B", "f", "1", "c", "4"),
      line("N", "f", "6", "e", "4"),
      line("N", "f", "3", "e", "5"),
      line("Q", "d", "8", "e", "7"),
      line("N", "e", "5", "f", "3"),
      line("N", "e", "4", "c", "3")>>,
    \* DestinationAttacked: f2f4 e7e5 g1f3 f8c5 e2e3 d7d6 f1e2 g8f6 e3e4 a7a6
    <<line(None, "f", "2", "f", "4"),
      line(None, "e", "7", "e", "5"),
      line("N", "g", "1", "f", "3"),
      line("B", "f", "8", "c", "5"),
      line(None, "e", "2", "e", "3"),
      line(None, "d", "7", "d", "6"),
      line("B", "f", "1", "e", "2"),
      line("N", "g", "8", "f", "6"),
      line(None, "e", "3", "e", "4"),
      line(None, "a", "7", "a", "6")>>,
    \* KnightOnB1: d2d4 d7d5 c1f4 c8f5 d1d2 d8d7(=)
    <<line(None, "d", "2", "d", "4"),
      line(None, "d", "7", "d", "5"),
      line("B", "c", "1", "f", "4"),
      line("B", "c", "8", "f", "5"),
      line("Q", "d", "1", "d", "2"),
      ordinary_input("Q", "d", "8", "d", "7", None, TRUE)>>,
    \* RookCameBack: e2e4 e7e5 g1f3 g8f6 f1c4 f8c5 h1g1 h8g8 g1h1 g8h8 d2d3 d7d6 c1e3 c8e6 b1c3 b8c6 d1d2 d8d7
    <<line(None, "e", "2", "e", "4"),
      line(None, "e", "7", "e", "5"),
      line("N", "g", "1", "f", "3"),
      line("N", "g", "8", "f", "6"),
      line("B", "f", "1", "c", "4"),
      line("B", "f", "8", "c", "5"),
      line("R", "h", "1", "g", "1"),
      line("R", "h", "8", "g", "8"),
      line("R", "g", "1", "h", "1"),
      line("R", "g", "8", "h", "8"),
      line(None, "d", "2", "d", "3"),
      line(None, "d", "7", "d", "6"),
      line("B", "c", "1", "e", "3"),
      line("B", "c", "8", "e", "6"),
      line("N", "b", "1", "c", "3"),
      line("N", "b", "8", "c", "6"),
      line("Q", "d", "1", "d", "2"),
      line("Q", "d", "8", "d", "7")>>,
    \* QueensideRookGone: d2d4 b8c6 c1f4 c6a5 b1c3 a5b3 d1d2 b3a1 g1f3 a7a6 e2e3 a6a5 f1e2 a1b3
    <<line(None, "d", "2", "d", "4"),
      line("N", "b", "8", "c", "6"),
      line("B", "c", "1", "f", "4"),
      line("N", "c", "6", "a", "5"),
      line("N", "b", "1", "c", "3"),
      line("N", "a", "5", "b", "3"),
      line("Q", "d", "1", "d", "2"),
      line("N", "b", "3", "a", "1"),
      line("N", "g", "1", "f", "3"),
      line(None, "a", "7", "a", "6"),
      line(None, "e", "2", "e", "3"),
      line(None, "a", "6", "a", "5"),
      line("B", "f", "1", "e", "2"),
      line("N", "a", "1", "b", "3")>>,
    \* Repetition: g1f3 g8f6 f3g1 f6g8 g1f3 g8f6 f3g1 f6g8
    <<line("N", "g", "1", "f", "3"),
      line("N", "g", "8", "f", "6"),
      line("N", "f", "3", "g", "1"),
      line("N", "f", "6", "g", "8"),
      line("N", "g", "1", "f", "3"),
      line("N", "g", "8", "f", "6"),
      line("N", "f", "3", "g", "1"),
      line("N", "f", "6", "g", "8")>>,
    \* EnPassantOffered: e2e4 a7a6 e4e5 d7d5
    <<line(None, "e", "2", "e", "4"),
      line(None, "a", "7", "a", "6"),
      line(None, "e", "4", "e", "5"),
      line(None, "d", "7", "d", "5")>>,
    \* EnPassantDeclined: e2e4 a7a6 e4e5 d7d5 h2h3 h7h6
    <<line(None, "e", "2", "e", "4"),
      line(None, "a", "7", "a", "6"),
      line(None, "e", "4", "e", "5"),
      line(None, "d", "7", "d", "5"),
      line(None, "h", "2", "h", "3"),
      line(None, "h", "7", "h", "6")>>,
    \* EnPassantPinned: e2e4 e7e5 d2d4 e5d4 e4e5 d8e7 g1f3 d7d5
    <<line(None, "e", "2", "e", "4"),
      line(None, "e", "7", "e", "5"),
      line(None, "d", "2", "d", "4"),
      line(None, "e", "5", "d", "4"),
      line(None, "e", "4", "e", "5"),
      line("Q", "d", "8", "e", "7"),
      line("N", "g", "1", "f", "3"),
      line(None, "d", "7", "d", "5")>>,
    \* RookFromTheBFile: b1c3 b8c6 a1b1 a8b8 b1a1
    <<line("N", "b", "1", "c", "3"),
      line("N", "b", "8", "c", "6"),
      line("R", "a", "1", "b", "1"),
      line("R", "a", "8", "b", "8"),
      line("R", "b", "1", "a", "1")>>,
    \* FoolsMate: f2f3 e7e5 g2g4 d8h4
    <<line(None, "f", "2", "f", "3"),
      line(None, "e", "7", "e", "5"),
      line(None, "g", "2", "g", "4"),
      line("Q", "d", "8", "h", "4")>>,
    \* PawnOnTheSeventh: a2a4 b7b5 a4b5 a7a6 b5a6 h7h6 a6a7 h6h5
    <<line(None, "a", "2", "a", "4"),
      line(None, "b", "7", "b", "5"),
      line(None, "a", "4", "b", "5"),
      line(None, "a", "7", "a", "6"),
      line(None, "b", "5", "a", "6"),
      line(None, "h", "7", "h", "6"),
      line(None, "a", "6", "a", "7"),
      line(None, "h", "6", "h", "5")>>,
    \* MatedBesideG1: a2a4 g8f6 e2e4 f6e4 f2f3 e4f2 b2b4 f2h1 h2h3 e7e5 f1c4 e8e7 d1e2 e7f6 c4d5 f6f5 e2a6 f5f4 a6d6 f4g3 f3f4 a7a6 d6g6 g3h2 g1f3
    <<line(None, "a", "2", "a", "4"),
      line("N", "g", "8", "f", "6"),
      line(None, "e", "2", "e", "4"),
      line("N", "f", "6", "e", "4"),
      line(None, "f", "2", "f", "3"),
      line("N", "e", "4", "f", "2"),
      line(None, "b", "2", "b", "4"),
      line("N", "f", "2", "h", "1"),
      line(None, "h", "2", "h", "3"),
      line(None, "e", "7", "e", "5"),
      line("B", "f", "1", "c", "4"),
      line("K", "e", "8", "e", "7"),
      line("Q", "d", "1", "e", "2"),
      line("K", "e", "7", "f", "6"),
      line("B", "c", "4", "d", "5"),
      line("K", "f", "6", "f", "5"),
      line("Q", "e", "2", "a", "6"),
      line("K", "f", "5", "f", "4"),
      line("Q", "a", "6", "d", "6"),
      line("K", "f", "4", "g", "3"),
      line(None, "f", "3", "f", "4"),
      line(None, "a", "7", "a", "6"),
      line("Q", "d", "6", "g", "6"),
      line("K", "g", "3", "h", "2"),
      line("N", "g", "1", "f", "3")>>,
    \* Stalemate: e2e3 a7a5 d1h5 a8a6 h5a5 h7h5 h2h4 a6h6 a5c7 f7f6 c7d7 e8f7 d7b7 d8d3 b7b8 d3h7 b8c8 f7g6 c8e6
    <<line(None, "e", "2", "e", "3"),
      line(None, "a", "7", "a", "5"),
      line("Q", "d", "1", "h", "5"),
      line("R", "a", "8", "a", "6"),
      line("Q", "h", "5", "a", "5"),
      line(None, "h", "7", "h", "5"),
      line(None, "h", "2", "h", "4"),
      line("R", "a", "6", "h", "6"),
      line("Q", "a", "5", "c", "7"),
      line(None, "f", "7", "f", "6"),
      line("Q", "c", "7", "d", "7"),
      line("K", "e", "8", "f", "7"),
      line("Q", "d", "7", "b", "7"),
      line("Q", "d", "8", "d", "3"),
      line("Q", "b", "7", "b", "8"),
      line("Q", "d", "3", "h", "7"),
      line("Q", "b", "8", "c", "8"),
      line("K", "f", "7", "g", "6"),
      line("Q", "c", "8", "e", "6")>>,
    \* Fivefold: g1f3 g8f6 f3g1 f6g8 g1f3 g8f6 f3g1 f6g8 g1f3 g8f6 f3g1 f6g8 g1f3 g8f6 f3g1 f6g8
    <<line("N", "g", "1", "f", "3"),
      line("N", "g", "8", "f", "6"),
      line("N", "f", "3", "g", "1"),
      line("N", "f", "6", "g", "8"),
      line("N", "g", "1", "f", "3"),
      line("N", "g", "8", "f", "6"),
      line("N", "f", "3", "g", "1"),
      line("N", "f", "6", "g", "8"),
      line("N", "g", "1", "f", "3"),
      line("N", "g", "8", "f", "6"),
      line("N", "f", "3", "g", "1"),
      line("N", "f", "6", "g", "8"),
      line("N", "g", "1", "f", "3"),
      line("N", "g", "8", "f", "6"),
      line("N", "f", "3", "g", "1"),
      line("N", "f", "6", "g", "8")>>,
    \* SeventyFiveMoves: b1a3 g8f6 a3b1 b8a6 b1c3 f6g4 c3b5 g4h6 b5c3 a6b8
    \* c3d5 h6f5 d5b6 b8c6 b6d5 f5h4 d5e3 h4f5 e3g4 f5h4 g1h3 h4g6 h3f4 c6d4
    \* g4e3 d4b3 f4d3 g6e5 e3c4 b3a5 c4a3 a5c4 d3f4 c4e3 f4h3 e3g4 a3b1 g4f6
    \* b1c3 f6h5 h3f4 h5g3 c3d5 e5g4 d5b4 g4h6 b4a6 g3e4 f4d3 e4c3 a6c5 h6g8
    \* c5a4 c3b5 d3b4 b5c3 a4c5 g8h6 b4d5 c3b5 d5b4 h6f5 c5e4 f5e3 b4d5 b5d4
    \* e4g5 d4b3 g5f3 e3g4 f3g1 g4f6 g1f3 f6h5 f3h4 b3a5 h4f5 a5c6 d5c3 c6b4
    \* c3e4 h5f6 f5d4 f6g4 e4c5 b4d5 c5a4 d5e3 d4c6 g4e5 c6b8 e3g4 a4b6 g4h6
    \* b8c6 e5c4 c6b4 h6g4 b6d5 c4e5 d5f4 e5c4 b4a6 g4e3 f4h3 c4b6 h3f4 b6a4
    \* f4h3 a4c3 h3g5 e3f5 g5e6 c3b1 e6f4 f5e3 a6b4 e3c4 f4h5 c4e5 b4a6 e5c6
    \* a6b8 b1c3 h5g3 c3a4 g3e4 c6a5 b8c6 a5b3 e4c5 a4c3 c5d3 b3a5 d3f4 a5c4
    \* f4g6 c4b6 g6h4 b6c4 c6b4 c4e5 h4f3 c3e4 f3g5 e4c5 g5e6 e5g4 e6g5 g4f6
    <<line("N", "b", "1", "a", "3"),
      line("N", "g", "8", "f", "6"),
      line("N", "a", "3", "b", "1"),
      line("N", "b", "8", "a", "6"),
      line("N", "b", "1", "c", "3"),
      line("N", "f", "6", "g", "4"),
      line("N", "c", "3", "b", "5"),
      line("N", "g", "4", "h", "6"),
      line("N", "b", "5", "c", "3"),
      line("N", "a", "6", "b", "8"),
      line("N", "c", "3", "d", "5"),
      line("N", "h", "6", "f", "5"),
      line("N", "d", "5", "b", "6"),
      line("N", "b", "8", "c", "6"),
      line("N", "b", "6", "d", "5"),
      line("N", "f", "5", "h", "4"),
      line("N", "d", "5", "e", "3"),
      line("N", "h", "4", "f", "5"),
      line("N", "e", "3", "g", "4"),
      line("N", "f", "5", "h", "4"),
      line("N", "g", "1", "h", "3"),
      line("N", "h", "4", "g", "6"),
      line("N", "h", "3", "f", "4"),
      line("N", "c", "6", "d", "4"),
      line("N", "g", "4", "e", "3"),
      line("N", "d", "4", "b", "3"),
      line("N", "f", "4", "d", "3"),
      line("N", "g", "6", "e", "5"),
      line("N", "e", "3", "c", "4"),
      line("N", "b", "3", "a", "5"),
      line("N", "c", "4", "a", "3"),
      line("N", "a", "5", "c", "4"),
      line("N", "d", "3", "f", "4"),
      line("N", "c", "4", "e", "3"),
      line("N", "f", "4", "h", "3"),
      line("N", "e", "3", "g", "4"),
      line("N", "a", "3", "b", "1"),
      line("N", "g", "4", "f", "6"),
      line("N", "b", "1", "c", "3"),
      line("N", "f", "6", "h", "5"),
      line("N", "h", "3", "f", "4"),
      line("N", "h", "5", "g", "3"),
      line("N", "c", "3", "d", "5"),
      line("N", "e", "5", "g", "4"),
      line("N", "d", "5", "b", "4"),
      line("N", "g", "4", "h", "6"),
      line("N", "b", "4", "a", "6"),
      line("N", "g", "3", "e", "4"),
      line("N", "f", "4", "d", "3"),
      line("N", "e", "4", "c", "3"),
      line("N", "a", "6", "c", "5"),
      line("N", "h", "6", "g", "8"),
      line("N", "c", "5", "a", "4"),
      line("N", "c", "3", "b", "5"),
      line("N", "d", "3", "b", "4"),
      line("N", "b", "5", "c", "3"),
      line("N", "a", "4", "c", "5"),
      line("N", "g", "8", "h", "6"),
      line("N", "b", "4", "d", "5"),
      line("N", "c", "3", "b", "5"),
      line("N", "d", "5", "b", "4"),
      line("N", "h", "6", "f", "5"),
      line("N", "c", "5", "e", "4"),
      line("N", "f", "5", "e", "3"),
      line("N", "b", "4", "d", "5"),
      line("N", "b", "5", "d", "4"),
      line("N", "e", "4", "g", "5"),
      line("N", "d", "4", "b", "3"),
      line("N", "g", "5", "f", "3"),
      line("N", "e", "3", "g", "4"),
      line("N", "f", "3", "g", "1"),
      line("N", "g", "4", "f", "6"),
      line("N", "g", "1", "f", "3"),
      line("N", "f", "6", "h", "5"),
      line("N", "f", "3", "h", "4"),
      line("N", "b", "3", "a", "5"),
      line("N", "h", "4", "f", "5"),
      line("N", "a", "5", "c", "6"),
      line("N", "d", "5", "c", "3"),
      line("N", "c", "6", "b", "4"),
      line("N", "c", "3", "e", "4"),
      line("N", "h", "5", "f", "6"),
      line("N", "f", "5", "d", "4"),
      line("N", "f", "6", "g", "4"),
      line("N", "e", "4", "c", "5"),
      line("N", "b", "4", "d", "5"),
      line("N", "c", "5", "a", "4"),
      line("N", "d", "5", "e", "3"),
      line("N", "d", "4", "c", "6"),
      line("N", "g", "4", "e", "5"),
      line("N", "c", "6", "b", "8"),
      line("N", "e", "3", "g", "4"),
      line("N", "a", "4", "b", "6"),
      line("N", "g", "4", "h", "6"),
      line("N", "b", "8", "c", "6"),
      line("N", "e", "5", "c", "4"),
      line("N", "c", "6", "b", "4"),
      line("N", "h", "6", "g", "4"),
      line("N", "b", "6", "d", "5"),
      line("N", "c", "4", "e", "5"),
      line("N", "d", "5", "f", "4"),
      line("N", "e", "5", "c", "4"),
      line("N", "b", "4", "a", "6"),
      line("N", "g", "4", "e", "3"),
      line("N", "f", "4", "h", "3"),
      line("N", "c", "4", "b", "6"),
      line("N", "h", "3", "f", "4"),
      line("N", "b", "6", "a", "4"),
      line("N", "f", "4", "h", "3"),
      line("N", "a", "4", "c", "3"),
      line("N", "h", "3", "g", "5"),
      line("N", "e", "3", "f", "5"),
      line("N", "g", "5", "e", "6"),
      line("N", "c", "3", "b", "1"),
      line("N", "e", "6", "f", "4"),
      line("N", "f", "5", "e", "3"),
      line("N", "a", "6", "b", "4"),
      line("N", "e", "3", "c", "4"),
      line("N", "f", "4", "h", "5"),
      line("N", "c", "4", "e", "5"),
      line("N", "b", "4", "a", "6"),
      line("N", "e", "5", "c", "6"),
      line("N", "a", "6", "b", "8"),
      line("N", "b", "1", "c", "3"),
      line("N", "h", "5", "g", "3"),
      line("N", "c", "3", "a", "4"),
      line("N", "g", "3", "e", "4"),
      line("N", "c", "6", "a", "5"),
      line("N", "b", "8", "c", "6"),
      line("N", "a", "5", "b", "3"),
      line("N", "e", "4", "c", "5"),
      line("N", "a", "4", "c", "3"),
      line("N", "c", "5", "d", "3"),
      line("N", "b", "3", "a", "5"),
      line("N", "d", "3", "f", "4"),
      line("N", "a", "5", "c", "4"),
      line("N", "f", "4", "g", "6"),
      line("N", "c", "4", "b", "6"),
      line("N", "g", "6", "h", "4"),
      line("N", "b", "6", "c", "4"),
      line("N", "c", "6", "b", "4"),
      line("N", "c", "4", "e", "5"),
      line("N", "h", "4", "f", "3"),
      line("N", "c", "3", "e", "4"),
      line("N", "f", "3", "g", "5"),
      line("N", "e", "4", "c", "5"),
      line("N", "g", "5", "e", "6"),
      line("N", "e", "5", "g", "4"),
      line("N", "e", "6", "g", "5"),
      line("N", "g", "4", "f", "6")>>,
    \* TwoKnightsToD2: g1f3 g8f6 d2d4 d7d5
    <<line("N", "g", "1", "f", "3"),
      line("N", "g", "8", "f", "6"),
      line(None, "d", "2", "d", "4"),
      line(None, "d", "7", "d", "5")>>}

\* The number of lines the players enter after the opening.
MaxFree == 1

\* The line typed(m) without the square of origin, as in "Nf3".
short(m) == [typed(m) EXCEPT !.from_file = None, !.from_rank = None]

\* The line typed(m) with the promotion letter changed: None for a line
\* without the letter, as in "a7b8", or a letter as in "a7b8=K".
with_promotion(m, letter) == [typed(m) EXCEPT !.promotion = letter]

\* What the players may type at the prompt for a move: a legal move in
\* full, or without its square of origin, or without its promotion letter,
\* a promotion to a king, a castle, a resignation, a call for help.
TypedInputs(legal) ==
    {typed(m) : m \in legal}
        \cup {short(m) : m \in legal}
        \cup {with_promotion(m, None) : m \in legal}
        \cup {with_promotion(m, "K") :
                 m \in {n \in legal : n.promotion # None}}
        \cup {castle_input(2, FALSE), castle_input(3, FALSE),
              resignation_input, help_input}

(***************************************************************************)
(* The state of main().                                                    *)
(*   game      the Game that the variable game of main is bound to         *)
(*   states    the history list.  The first Game creates it; every Game    *)
(*             made by Game.move receives the same list object and         *)
(*             appends to it, so all the Games of a run share this one     *)
(*             list.                                                       *)
(*   moves     the variable moves of main                                  *)
(*   draw_claimed_args   the claims collected on lines 328-338             *)
(*   pc        where main is: "loop" (line 325), "claim" (the prompt of    *)
(*             line 339), "input" (line 344), "offer" (the prompt of line  *)
(*             361), or how it ended                                       *)
(*   input     the lines of the opening not yet entered                    *)
(*   free      the number of lines entered after the opening               *)
(*   source, played   the Game on which Game.move was last called, as the  *)
(*             call left it, and the Move it was given                     *)
(*   second    what a second call of source.move(played) returned, when    *)
(*             one was made                                                *)
(***************************************************************************)
VARIABLES game, states, moves, draw_claimed_args, pc, input, free,
          source, played, second

vars == <<game, states, moves, draw_claimed_args, pc, input, free,
          source, played, second>>

NoMove == Move(NoPiece, NoSpace, NoSpace, None)

Init ==
    /\ game = Game(create_board, CASTLE_RIGHTS, NoSpace, 0, 0)
    /\ states = states_after(<<>>, game)
    /\ moves = {}
    /\ draw_claimed_args = {}
    /\ pc = "loop"
    /\ input \in Openings
    /\ free = 0
    /\ source = game
    /\ played = NoMove
    /\ second = <<>>

\* A count of the moves of either side since a pawn move or a capture.
num_moves_of_either_side(g) == g.moves_since_pawn_move_or_capture

\* Line 334: the turns since a pawn move or a capture.
num_moves(g) == g.moves_since_pawn_move_or_capture \div 2

\* Lines 325-341: the legal moves, the end of the game, the draw rules.
LoopTop ==
    /\ pc = "loop"
    /\ UNCHANGED <<input, free, source, played, second>>
    /\ \E tried \in {tried_moves(game)} :
       \E legal \in {moves_in(game, tried)} :
       \E this \in {find_moves_self([game |-> game, states |-> states],
                                    tried)} :
       \E left \in {IF raises_in(tried) \/ legal # {}
                       THEN this ELSE king_is_in_check_self(this)} :
       \E num_rep \in {number_of_repetitions(left.states)} :
       /\ game' = left.game
       /\ states' = left.states
       /\ LET repetition == IF num_rep >= 3 THEN {"repetition"} ELSE {}
              fifty_moves == IF num_moves(left.game) >= 50
                                 THEN {"fifty_moves"} ELSE {}
          IN  IF raises_in(tried)
                 THEN pc' = "crashed" /\ UNCHANGED <<moves, draw_claimed_args>>
                 ELSE /\ moves' = legal
                      /\ IF legal = {}
                            THEN /\ UNCHANGED draw_claimed_args
                                 /\ pc' = IF king_is_in_check_raises(this.game)
                                              THEN "crashed"
                                          ELSE IF king_is_in_check(this.game)
                                              THEN "checkmate"
                                              ELSE "stalemate"
                         ELSE IF num_rep >= 5
                            THEN pc' = "fivefold" /\ draw_claimed_args' = {}
                         ELSE IF num_moves(left.game) >= 75
                            THEN /\ pc' = "seventy_five"
                                 /\ draw_claimed_args' = repetition
                         ELSE /\ draw_claimed_args' =
                                    repetition \cup fifty_moves
                              /\ pc' = IF repetition \cup fifty_moves = {}
                                           THEN "input" ELSE "claim"

\* Line 339, draw_claimed with a claim to make: the other player is asked,
\* then the player; the game is drawn when either says yes.
DrawClaim ==
    /\ pc = "claim"
    /\ \E other_says_yes, player_says_yes \in BOOLEAN :
          pc' = IF other_says_yes \/ player_says_yes THEN "draw" ELSE "input"
    /\ UNCHANGED <<game, states, moves, draw_claimed_args, input, free,
                   source, played, second>>

\* Lines 344-358 for one parsed input.
Enter(parsed_input) ==
    /\ pc = "input"
    /\ UNCHANGED <<moves, draw_claimed_args, second>>
    /\ IF parsed_input.kind = "resignation"
          THEN pc' = "resigned" /\ UNCHANGED <<game, states, source, played>>
       ELSE IF parsed_input.kind = "help"
          THEN UNCHANGED <<pc, game, states, source, played>>
       ELSE LET request == requested_move(parsed_input, game)
            IN  IF find_move_raises_MoveError(request, moves)
                   THEN UNCHANGED <<pc, game, states, source, played>>
                   ELSE \E promoted \in IF asks_promotion(request)
                                            THEN PROMOTION_OPTIONS
                                            ELSE {None} :
                     IF find_move_raises_StopIteration(request, moves,
                                                       promoted)
                        THEN /\ pc' = "crashed"
                             /\ UNCHANGED <<game, states, source, played>>
                        ELSE \E m \in {find_move(request, moves, promoted)} :
                             \E new_game \in {move(game, m)} :
                                 /\ played' = m
                                 /\ source' = move_self(game, m)
                                 /\ IF move_raises(game, m)
                                       THEN /\ pc' = "crashed"
                                            /\ game' = move_self(game, m)
                                            /\ UNCHANGED states
                                       ELSE /\ game' = new_game
                                            /\ states' =
                                                 states_after(states, new_game)
                                            /\ pc' = IF parsed_input.draw_offer
                                                         THEN "offer"
                                                         ELSE "loop"

\* The next input is the next line of the opening.
ReadLine ==
    /\ input # <<>>
    /\ Enter(Head(input))
    /\ input' = Tail(input)
    /\ UNCHANGED free

\* The opening is over: the next input is a line of the player's choice.
TypeInput ==
    /\ input = <<>>
    /\ free < MaxFree
    /\ \E parsed_input \in TypedInputs(moves) : Enter(parsed_input)
    /\ free' = free + 1
    /\ UNCHANGED input

\* Lines 360-363: the answer to a draw offer.
DrawOffer ==
    /\ pc = "offer"
    /\ \E accepted \in BOOLEAN : pc' = IF accepted THEN "draw" ELSE "loop"
    /\ UNCHANGED <<game, states, moves, draw_claimed_args, input, free,
                   source, played, second>>

Next == LoopTop \/ DrawClaim \/ ReadLine \/ TypeInput \/ DrawOffer

Spec == Init /\ [][Next]_vars

(***************************************************************************)
(* A caller of Game.move that makes the call it has just made once more,   *)
(* on the same Game and with the same Move, and keeps what the second call *)
(* returns.  The second call finds the source as the first call left it,   *)
(* and appends to the same history list.                                   *)
(***************************************************************************)
MoveAgain ==
    /\ pc = "loop"
    /\ played # NoMove
    /\ second = <<>>
    /\ ~move_raises(source, played)
    /\ second' = <<move(source, played)>>
    /\ source' = move_self(source, played)
    /\ states' = states_after(states, move(source, played))
    /\ pc' = "repeated"
    /\ UNCHANGED <<game, moves, draw_claimed_args, input, free, played>>

NextRepeat ==
    LoopTop \/ DrawClaim \/ ReadLine \/ TypeInput \/ DrawOffer \/ MoveAgain

SpecRepeat == Init /\ [][NextRepeat]_vars

(***************************************************************************)
(* The positions on which find_moves calls king_is_in_check: the move is   *)
(* made hypothetically for every candidate that is legal (lines 108-117).  *)
(***************************************************************************)
checked_positions(g) ==
    {hypothetical_move(g, m) :
        m \in {c \in {candidate(g, pair[1], pair[2]) :
                        pair \in get_piece_spaces(g, player_of(g)) \X Spaces} :
                 /\ ~is_legal_raises(c, g)
                 /\ is_legal(c, g)
                 /\ ~update_board_raises(g.board, c)}}

(***************************************************************************)
(* The vocabulary of the properties below.  Attack is stated here from the *)
(* geometry of the board alone, without the program's legality code, so    *)
(* that the properties measure that code against the rules of chess.       *)
(***************************************************************************)
Opponent(player) == IF player = "white" THEN "black" ELSE "white"

Sign(n) == IF n > 0 THEN 1 ELSE IF n < 0 THEN 0 - 1 ELSE 0

\* The squares strictly between two squares of a row, a column or a diagonal.
Between(s, t) ==
    LET dr == row(t) - row(s)
        dc == col(t) - col(s)
    IN  IF dr = 0 \/ dc = 0 \/ abs(dr) = abs(dc)
            THEN {Space(row(s) + k * Sign(dr), col(s) + k * Sign(dc)) :
                    k \in 1 .. (Max(abs(dr), abs(dc)) - 1)}
            ELSE {}

\* The piece on s attacks the square t.
Attacks(board, s, t) ==
    LET dr == row(t) - row(s)
        dc == col(t) - col(s)
        clear == \A u \in Between(s, t) : board[u] = NoPiece
        straight == (dr = 0) # (dc = 0)
        diagonal == abs(dr) = abs(dc) /\ dr # 0
        kind == board[s].kind
    IN  CASE kind = "pawn" ->
                /\ dr = (IF board[s].player = "white" THEN 1 ELSE 0 - 1)
                /\ abs(dc) = 1
          [] kind = "knight" -> {abs(dr), abs(dc)} = {1, 2}
          [] kind = "bishop" -> diagonal /\ clear
          [] kind = "rook" -> straight /\ clear
          [] kind = "queen" -> (straight \/ diagonal) /\ clear
          [] kind = "king" -> Max(abs(dr), abs(dc)) = 1
          [] OTHER -> FALSE

Attacked(board, t, by) ==
    \E s \in Spaces : board[s].player = by /\ Attacks(board, s, t)

KingOf(board, player) == CHOOSE s \in Spaces : board[s] = Piece("king", player)

InCheck(board, player) ==
    Attacked(board, KingOf(board, player), Opponent(player))

OneKingPerSide(board) ==
    \A player \in {"white", "black"} :
        Cardinality({s \in Spaces : board[s] = Piece("king", player)}) = 1

\* The moves that find_moves yielded on the position of game, once main has
\* called it there (all of them, or those before the fault).
Yielded ==
    IF pc \in {"input", "claim"} THEN moves
    ELSE IF pc = "crashed" THEN yielded_moves(game)
    ELSE {}

\* main has called find_moves on the position of game.
MovesAsked == pc \in {"input", "claim", "crashed"}

\* The squares of a castle of the player on a wing.
KingStart(player) == Space(perspective(player, 0), 4)

KingEnd(player, wing) ==
    Space(perspective(player, 0), IF wing = "kingside" THEN 6 ELSE 2)

RookEnd(player, wing) ==
    Space(perspective(player, 0), IF wing = "kingside" THEN 5 ELSE 3)

Corner(player, wing) ==
    Space(perspective(player, 0), IF wing = "kingside" THEN 7 ELSE 0)

Wing(m) == IF col(m.end) > col(m.start) THEN "kingside" ELSE "queenside"

Castle(player, wing) ==
    Move(Piece("king", player), KingStart(player), KingEnd(player, wing), None)

\* The king and the rook of the wing stand on their original squares with
\* nothing between them, and the king's start, transit and destination
\* squares are not attacked.
CastlePlaceHolds(g, wing) ==
    LET player == player_of(g)
    IN  /\ g.board[KingStart(player)] = Piece("king", player)
        /\ g.board[Corner(player, wing)] = Piece("rook", player)
        /\ \A s \in Between(KingStart(player), Corner(player, wing)) :
              g.board[s] = NoPiece
        /\ \A s \in {KingStart(player), RookEnd(player, wing),
                     KingEnd(player, wing)} :
              ~Attacked(g.board, s, Opponent(player))

(***************************************************************************)
(* Properties.                                                             *)
(***************************************************************************)

\* C1: in every position reached from the standard start, every move that
\* find_moves yields, once applied, leaves the king of the side that made
\* it attacked by no piece of the other side.
C1_YieldedMovesLeaveOwnKingSafe ==
    \A m \in Yielded :
        ~InCheck(update_board(game.board, m), player_of(game))

\* The side to move is in check and find_moves has yielded its answers.
C1_MoverInCheckHasMoves ==
    /\ pc = "input"
    /\ InCheck(game.board, player_of(game))
    /\ moves # {}

\* C2: Game.move is deterministic: a second call P.move(M), made right
\* after the first, returns a Game equal to the first in board, castle
\* rights, en-passant target, side to move (move counter), half-move clock
\* and history.  (The two Games hold the same history list, so that only
\* their fields can tell them apart.)
C2_SecondCallReturnsTheSame == second # <<>> => second[1] = game

\* C3: a non-hypothetical Game.move leaves the position it is called on as
\* it was: after the call the source has the fields that it had before,
\* and its history is the history of before.
C3_MoveLeavesSourceUnchanged ==
    [][(pc = "input" /\ pc' \in {"loop", "offer"})
          => (source' = game /\ states' = states)]_vars

\* C4: on every position reached from the standard start by yielded moves,
\* find_moves, king_is_in_check and move (of any yielded move) return a
\* value and raise nothing, also when a castle right outlives its rook.
\* (Every position the game reaches is held once with pc = "loop".)
C4_OperationsNeverFault ==
    pc = "loop" =>
        LET tried == tried_moves(game)
        IN  /\ ~raises_in(tried)
            /\ ~king_is_in_check_raises(game)
            /\ \A m \in moves_in(game, tried) : ~move_raises(game, m)

\* C5: on a position with exactly one king per side, king_is_in_check
\* ends: its evaluation never comes back to king_is_in_check on the same
\* position.  The positions are those the game reaches and those on which
\* find_moves calls it there.
C5_KingIsInCheckDoesNotReenter ==
    pc = "loop" =>
        \A h \in {game} \cup checked_positions(game) :
            OneKingPerSide(h.board) => ~king_is_in_check_raises(h)

\* C6: applying a castle that find_moves yields leaves the mover's king on
\* its destination (column 6 or 2 of the back rank), a rook of the mover on
\* the square the king crossed (column 5 or 3), the king's square of origin
\* and the rook's corner empty, and every other square as it was.
C6_CastleMovesKingAndRook ==
    \A m \in Yielded :
        is_castle(m) =>
            LET player == player_of(game)
                after == update_board(game.board, m)
            IN  /\ m.end = KingEnd(player, Wing(m))
                /\ after[m.end] = Piece("king", player)
                /\ after[RookEnd(player, Wing(m))] = Piece("rook", player)
                /\ after[m.start] = NoPiece
                /\ after[Corner(player, Wing(m))] = NoPiece
                /\ \A s \in Spaces \ {m.start, m.end, RookEnd(player, Wing(m)),
                                      Corner(player, Wing(m))} :
                      after[s] = game.board[s]

\* A step of the king of the side to move, to a square t next to it that
\* holds no piece of its own and where no piece of the other side attacks
\* it once it stands there.
KingStepEscapes(g, t) ==
    LET player == player_of(g)
        from == KingOf(g.board, player)
        after == [g.board EXCEPT ![t] = Piece("king", player),
                                 ![from] = NoPiece]
    IN  /\ Max(abs(row(t) - row(from)), abs(col(t) - col(from))) = 1
        /\ g.board[t].player # player
        /\ ~Attacked(after, t, Opponent(player))

\* C7: find_moves yields no castle when the mover's king is in check on
\* its start square, nor when the square the king passes over or its
\* destination is attacked by a piece of the other side; and when the
\* king is in check, every one-square king move out of check is among the
\* moves find_moves yields.
C7_NoCastleOutOfOrThroughCheck ==
    /\ \A m \in Yielded :
          is_castle(m) =>
              \A s \in {m.start, m.end} \cup Between(m.start, m.end) :
                  ~Attacked(game.board, s, other_player_of(game))
    /\ (MovesAsked /\ InCheck(game.board, player_of(game))) =>
          \A t \in Spaces :
              KingStepEscapes(game, t) =>
                  Move(Piece("king", player_of(game)),
                       KingOf(game.board, player_of(game)), t, None)
                      \in Yielded

\* C8: find_moves yields no castle when a piece of either side stands on a
\* square strictly between the king's start square and the castling rook's
\* corner (the king's destination and, on the queenside, the b-file square
\* included).
C8_NoCastleOverPieces ==
    \A m \in Yielded :
        is_castle(m) =>
            \A s \in Between(m.start, Corner(player_of(game), Wing(m))) :
                game.board[s] = NoPiece

\* The only piece between the king and the queenside rook stands on the
\* b-file, nothing else stands against the castle, and find_moves has not
\* yielded it.
C8_OnlyTheBFileIsOccupied ==
    LET player == player_of(game)
        back == perspective(player, 0)
    IN  /\ pc = "input"
        /\ "queenside" \in game.castle_rights[player]
        /\ game.board[KingStart(player)] = Piece("king", player)
        /\ game.board[Corner(player, "queenside")] = Piece("rook", player)
        /\ game.board[Space(back, 1)] # NoPiece
        /\ game.board[Space(back, 2)] = NoPiece
        /\ game.board[Space(back, 3)] = NoPiece
        /\ \A s \in {Space(back, 2), Space(back, 3), Space(back, 4)} :
              ~Attacked(game.board, s, Opponent(player))
        /\ Castle(player, "queenside") \notin moves

\* C9: find_moves yields a kingside (queenside) castle for a side only if
\* the side holds the kingside (queenside) right; and a side that has lost
\* one right and holds the other is still given the other castle where the
\* board allows it.
C9_CastleOnlyWithItsRight ==
    /\ \A m \in Yielded :
          is_castle(m) => Wing(m) \in game.castle_rights[player_of(game)]
    /\ MovesAsked =>
          \A wing \in {"kingside", "queenside"} :
              (/\ game.castle_rights[player_of(game)] = {wing}
               /\ CastlePlaceHolds(game, wing))
                  => Castle(player_of(game), wing) \in Yielded

\* The board allows both castles, the side to move has lost the kingside
\* right only, and find_moves has yielded the queenside castle alone.
C9_OneRightLostOtherCastleYielded ==
    /\ pc = "input"
    /\ game.castle_rights[player_of(game)] = {"queenside"}
    /\ CastlePlaceHolds(game, "kingside")
    /\ CastlePlaceHolds(game, "queenside")
    /\ Castle(player_of(game), "queenside") \in moves
    /\ Castle(player_of(game), "kingside") \notin moves

\* C10: when the side to move holds a castle right, its king and the rook
\* of that wing are on their original squares with every square between
\* them empty, and none of the king's start, transit and destination
\* squares is attacked, find_moves yields that castle (both sides, both
\* wings).
C10_CastleYieldedWhenConditionsHold ==
    MovesAsked =>
        \A wing \in {"kingside", "queenside"} :
            (/\ wing \in game.castle_rights[player_of(game)]
             /\ CastlePlaceHolds(game, wing))
                => Castle(player_of(game), wing) \in Yielded

(***************************************************************************)
(* En passant.                                                             *)
(***************************************************************************)
\* The last call of Game.move returned, and game is the position it made.
MoveMade == played # NoMove /\ played.piece.player = Opponent(player_of(game))

\* The move that made the position of game was a pawn's advance of two
\* squares.
PawnJustAdvancedTwo ==
    /\ MoveMade
    /\ played.piece.kind = "pawn"
    /\ abs(row(played.end) - row(played.start)) = 2

\* The square that a pawn's advance of two squares passes over.
Transit(m) == Space((row(m.start) + row(m.end)) \div 2, col(m.start))

\* The squares beside the pawn that has just advanced on which a pawn of the
\* side to move stands.
PawnsBeside(g, m) ==
    {s \in Spaces :
        /\ row(s) = row(m.end)
        /\ abs(col(s) - col(m.end)) = 1
        /\ g.board[s] = Piece("pawn", player_of(g))}

\* A pawn's diagonal step to an empty square.
EnPassantCapture(board, m) ==
    /\ m.piece.kind = "pawn"
    /\ abs(col(m.end) - col(m.start)) = 1
    /\ board[m.end] = NoPiece

\* The capture of the pawn that has just advanced by the pawn on s.
CaptureInPassing(g, s, m) ==
    Move(Piece("pawn", player_of(g)), s, Transit(m), None)

\* The board after the pawn on s has taken, in passing, the pawn on taken
\* and stands on t.
BoardAfterEnPassant(board, s, t, taken) ==
    [u \in Spaces |->
        IF u = t THEN board[s]
        ELSE IF u \in {s, taken} THEN NoPiece
        ELSE board[u]]

\* Every en-passant capture that find_moves yields lands on the transit
\* square of the move that made the position.
EnPassantOnlyRightAfter ==
    (MovesAsked /\ (MoveMade \/ played = NoMove)) =>
        \A m \in Yielded :
            EnPassantCapture(game.board, m) =>
                PawnJustAdvancedTwo /\ m.end = Transit(played)

\* C11: after a pawn's advance of two squares, the capture onto the transit
\* square by an enemy pawn beside it is among find_moves in the position
\* that follows, unless it would leave the capturing side's king attacked;
\* and every en-passant capture that find_moves yields lands on the transit
\* square of the move made immediately before.
C11_EnPassantRightAfterUnlessInCheck ==
    /\ (MovesAsked /\ PawnJustAdvancedTwo) =>
            \A s \in PawnsBeside(game, played) :
                \/ CaptureInPassing(game, s, played) \in Yielded
                \/ InCheck(BoardAfterEnPassant(game.board, s, Transit(played),
                                                played.end),
                           player_of(game))
    /\ EnPassantOnlyRightAfter

\* C11 as stated: the capture is among find_moves whenever an enemy pawn
\* stands beside the pawn that has just advanced two squares.
C11_EnPassantRightAfter ==
    /\ (MovesAsked /\ PawnJustAdvancedTwo) =>
            \A s \in PawnsBeside(game, played) :
                CaptureInPassing(game, s, played) \in Yielded
    /\ EnPassantOnlyRightAfter

\* find_moves has yielded an en-passant capture right after the advance.
C11_EnPassantYielded ==
    /\ MovesAsked /\ PawnJustAdvancedTwo
    /\ \E s \in PawnsBeside(game, played) :
          CaptureInPassing(game, s, played) \in Yielded

\* The capture was not made, a move of each side later the pawns still stand
\* side by side, and find_moves has run.
C11_EnPassantChanceGone ==
    /\ MovesAsked /\ MoveMade /\ ~PawnJustAdvancedTwo
    /\ game.board[Space(4, 4)] = Piece("pawn", "white")
    /\ game.board[Space(4, 3)] = Piece("pawn", "black")
    /\ player_of(game) = "white"

\* The last move made was a pawn's move onto the en-passant target of the
\* position it was made on.
EnPassantMade ==
    /\ MoveMade
    /\ played.piece.kind = "pawn"
    /\ played.end = source.en_passant

\* C12: an en-passant capture, applied, moves the capturing pawn one step
\* diagonally forward onto the transit square, which was empty, empties the
\* square it came from and removes the enemy pawn from the square of its
\* start row and its destination's column; nothing else changes.
C12_EnPassantTakesThePawnBehind ==
    EnPassantMade =>
        LET taken == Space(row(played.start), col(played.end))
            forward == IF played.piece.player = "white" THEN 1 ELSE 0 - 1
        IN  /\ row(played.end) = row(played.start) + forward
            /\ abs(col(played.end) - col(played.start)) = 1
            /\ source.board[played.end] = NoPiece
            /\ source.board[played.start] = played.piece
            /\ source.board[taken] =
                   Piece("pawn", Opponent(played.piece.player))
            /\ game.board = BoardAfterEnPassant(source.board, played.start,
                                                played.end, taken)
            /\ game.board[played.end] = played.piece
            /\ game.board[played.start] = NoPiece
            /\ game.board[taken] = NoPiece

\* An en-passant capture has been applied.
C12_EnPassantApplied ==
    /\ EnPassantMade
    /\ source.board[played.end] = NoPiece
    /\ game.board[played.end] = played.piece

\* C13: the en-passant target of a position is present only if find_moves
\* on that position yields a move of a pawn that ends on it.
C13_EnPassantTargetOnlyIfCapturable ==
    (pc \in {"input", "claim"} /\ game.en_passant # NoSpace) =>
        \E m \in moves : m.piece.kind = "pawn" /\ m.end = game.en_passant

(***************************************************************************)
(* Castle rights.                                                          *)
(***************************************************************************)
\* C14: no step gives a side a castle right that it did not hold before the
\* step.
C14_RightsNeverGrow ==
    [][\A player \in {"white", "black"} :
          game'.castle_rights[player] \subseteq game.castle_rights[player]]_vars

\* A side that had lost a right has made a further move, after which main
\* has gone on.
C14_MovedAfterLosingARight ==
    /\ MoveMade
    /\ source.castle_rights[played.piece.player] # {"kingside", "queenside"}
    /\ pc \in {"input", "claim"}

\* The rights of a side before and after the last move made.
RightsBefore(player) == source.castle_rights[player]

RightsAfter(player) == game.castle_rights[player]

\* C15: a move of the king, a castle included, leaves the mover no right; a
\* move of a rook from column 0 takes the mover's queenside right and a
\* move of a rook from column 7 the mover's kingside right.
C15_KingAndCornerRookMovesLoseRights ==
    MoveMade =>
        LET mover == played.piece.player
        IN  /\ played.piece.kind = "king" => RightsAfter(mover) = {}
            /\ (played.piece.kind = "rook" /\ col(played.start) = 0) =>
                   RightsAfter(mover) = RightsBefore(mover) \ {"queenside"}
            /\ (played.piece.kind = "rook" /\ col(played.start) = 7) =>
                   RightsAfter(mover) = RightsBefore(mover) \ {"kingside"}

\* The king has moved or castled while its side held both rights.
C15_KingMovedWithBothRights ==
    /\ MoveMade
    /\ played.piece.kind = "king"
    /\ RightsBefore(played.piece.player) = {"kingside", "queenside"}

\* A rook has left column 7, or column 0, while its side held both rights.
C15_RookLeftColumn7 ==
    /\ MoveMade
    /\ played.piece.kind = "rook" /\ col(played.start) = 7
    /\ RightsBefore(played.piece.player) = {"kingside", "queenside"}

C15_RookLeftColumn0 ==
    /\ MoveMade
    /\ played.piece.kind = "rook" /\ col(played.start) = 0
    /\ RightsBefore(played.piece.player) = {"kingside", "queenside"}

\* C16: a move of a pawn, a knight, a bishop or a queen, and a move of a
\* rook from one of the columns 1 to 6, takes no right from the mover; no
\* move takes a right from the other side.
C16_OtherMovesLoseNoRight ==
    MoveMade =>
        LET mover == played.piece.player
        IN  /\ RightsAfter(Opponent(mover)) = RightsBefore(Opponent(mover))
            /\ (\/ played.piece.kind \in {"pawn", "knight", "bishop", "queen"}
                \/ /\ played.piece.kind = "rook"
                   /\ col(played.start) \in 1 .. 6) =>
                   RightsAfter(mover) = RightsBefore(mover)

(***************************************************************************)
(* The half-move clock and the history.                                    *)
(***************************************************************************)
\* main applies a move in this step.
MoveStep == pc = "input" /\ pc' \in {"loop", "offer"}

\* C17: applying a pawn move or a capture gives a position with half-move
\* clock 0; applying any other move gives one with the clock of the position
\* moved from plus one.
C17_ClockIsZeroOrOneMore ==
    [][MoveStep =>
          game'.moves_since_pawn_move_or_capture =
              IF \/ played'.piece.kind = "pawn"
                 \/ game.board[played'.end] # NoPiece
                  THEN 0
                  ELSE game.moves_since_pawn_move_or_capture + 1]_vars

\* A piece other than a pawn has captured and the clock of the position
\* made is 0.
C17_CaptureSetTheClockBack ==
    /\ MoveMade
    /\ played.piece.kind # "pawn"
    /\ source.board[played.end] # NoPiece
    /\ game.moves_since_pawn_move_or_capture = 0

\* The clock has gone above 1.
C17_ClockCounted == game.moves_since_pawn_move_or_capture > 1

\* The en-passant target of the position of game if find_moves yields a
\* pawn's move onto it, and none otherwise.
EffectiveEnPassant ==
    IF \E m \in moves : m.piece.kind = "pawn" /\ m.end = game.en_passant
        THEN game.en_passant
        ELSE NoSpace

\* The entries of the history that have the board, the side to move, the
\* castle rights and the effective en-passant target of the position of
\* game.
SamePositions ==
    {i \in 1 .. Len(states) :
        /\ states[i].board = game.board
        /\ states[i].player = player_of(game)
        /\ states[i].castle_rights = game.castle_rights
        /\ states[i].en_passant = EffectiveEnPassant}

\* C18: the repetition count of the current position is the number of
\* entries of the history, the current one included, with its board, side
\* to move, castle rights and effective en-passant target.
C18_RepetitionsCountSamePositions ==
    pc \in {"input", "claim"} =>
        /\ number_of_repetitions(states) = Cardinality(SamePositions)
        /\ Len(states) \in SamePositions

\* A position has come for the third time.
C18_ThirdTime ==
    /\ pc = "claim"
    /\ number_of_repetitions(states) = 3
    /\ Cardinality(SamePositions) = 3

\* The board has come before with other castle rights.
C18_SameBoardOtherRights ==
    /\ pc = "input"
    /\ \E i \in 1 .. Len(states) :
          /\ states[i].board = game.board
          /\ states[i].player = player_of(game)
          /\ states[i].castle_rights # game.castle_rights

\* C19: the history only grows at its end; after n moves applied from the
\* initial position it has n + 1 entries; the steps that build hypothetical
\* positions to test legality and check leave it as it is.
C19_HistoryGrowsByOnePerMove ==
    [][/\ Len(states') >= Len(states)
       /\ SubSeq(states', 1, Len(states)) = states
       /\ Len(states) = game.move_num + 1
       /\ Len(states') = game'.move_num + 1
       /\ pc = "loop" => states' = states]_vars

\* Several moves have been applied and find_moves has run on the position
\* of game, hypothetical positions included.
C19_MovesTriedAfterSomeMoves ==
    /\ pc \in {"input", "claim"}
    /\ game.move_num >= 3
    /\ Len(states) = game.move_num + 1
    /\ checked_positions(game) # {}

(***************************************************************************)
(* Fool's mate.                                                            *)
(***************************************************************************)
\* The board after f2-f3, e7-e5, g2-g4, Qd8-h4 from the standard start.
FoolsMateBoard ==
    [s \in Spaces |->
        IF s \in {Space(1, 5), Space(1, 6), Space(6, 4), Space(7, 3)}
            THEN NoPiece
        ELSE IF s \in {Space(2, 5), Space(3, 6)} THEN Piece("pawn", "white")
        ELSE IF s = Space(4, 4) THEN Piece("pawn", "black")
        ELSE IF s = Space(3, 7) THEN Piece("queen", "black")
        ELSE create_board[s]]

FoolsMatePlayed == game.move_num = 4 /\ game.board = FoolsMateBoard

\* C20: in the position after f2-f3, e7-e5, g2-g4, Qd8-h4 from the standard
\* start, find_moves yields no move and king_is_in_check says that the side
\* to move, white, is in check; main ends the game as a checkmate.
C20_FoolsMateIsCheckmate ==
    FoolsMatePlayed =>
        /\ player_of(game) = "white"
        /\ ~find_moves_raises(game) /\ find_moves(game) = {}
        /\ ~king_is_in_check_raises(game) /\ king_is_in_check(game)
        /\ pc \in {"loop", "checkmate"}
        /\ pc = "checkmate" => moves = {}

\* main has found the checkmate.
C20_FoolsMateFound == FoolsMatePlayed /\ pc = "checkmate"

(***************************************************************************)
(* Promotion.                                                              *)
(***************************************************************************)
\* The rank farthest from the player's own.
FarRank(player) == IF player = "white" THEN 7 ELSE 0

\* The promotions of the moves from start to end among those yielded.
PromotionsYielded(yielded, start, end) ==
    {m.promotion : m \in {n \in yielded : n.start = start /\ n.end = end}}

\* C21: of the moves that find_moves yields from one square to another,
\* when the piece is a pawn and the destination is on the mover's far rank
\* there is one for each of rook, knight, bishop and queen and none without
\* promotion; otherwise there is one, without promotion.
C21_FourPromotionsOrNone ==
    \A yielded \in {Yielded} :
    \A m \in yielded :
        PromotionsYielded(yielded, m.start, m.end) =
            IF m.piece.kind = "pawn" /\ row(m.end) = FarRank(m.piece.player)
                THEN {"rook", "knight", "bishop", "queen"}
                ELSE {None}

\* find_moves has yielded the promotions of a pawn.
C21_PromotionsYielded ==
    /\ pc = "input"
    /\ \E m \in moves :
          /\ m.piece.kind = "pawn"
          /\ row(m.end) = FarRank(m.piece.player)
          /\ m.promotion = "knight"

(***************************************************************************)
(* The kings.                                                              *)
(***************************************************************************)
\* C22: in every position reached from the standard start by moves that
\* find_moves yielded, each side has exactly one king on the board.
C22_OneKingEach == OneKingPerSide(game.board)

\* A move has been made that attacks the king of the side now to move, and
\* find_moves has run for that side.
C22_KingAttackedAndOnTheBoard ==
    /\ MoveMade
    /\ InCheck(game.board, player_of(game))
    /\ pc = "input"

\* A pawn has been promoted.
C22_PawnPromoted == MoveMade /\ played.promotion # None

(***************************************************************************)
(* Hypothetical moves.                                                     *)
(***************************************************************************)
\* C23: a position that Game.move returns for a hypothetical move has the
\* castle rights, the side to move, the move counter and the half-move
\* clock of the position it was made from.
C23_HypotheticalKeepsAllButTheBoard ==
    pc \in {"input", "claim"} =>
        \A hypothetical_state \in checked_positions(game) :
            /\ hypothetical_state.castle_rights = game.castle_rights
            /\ player_of(hypothetical_state) = player_of(game)
            /\ hypothetical_state.move_num = game.move_num
            /\ hypothetical_state.moves_since_pawn_move_or_capture =
                  game.moves_since_pawn_move_or_capture

(***************************************************************************)
(* The end of the game.  What a piece may do is stated here from the rules *)
(* of chess; castling is left out, since a side that may castle may also   *)
(* step its king onto the square that the king passes over.                *)
(***************************************************************************)
\* The board after the piece on s has gone to t; a pawn that steps
\* diagonally onto an empty square takes the pawn beside it.
BoardAfter(board, s, t) ==
    [u \in Spaces |->
        IF u = t THEN board[s]
        ELSE IF u = s THEN NoPiece
        ELSE IF /\ board[s].kind = "pawn"
                /\ col(s) # col(t)
                /\ board[t] = NoPiece
                /\ u = Space(row(s), col(t))
            THEN NoPiece
        ELSE board[u]]

\* The piece on s may go to t, its own king's safety apart.
Reaches(g, s, t) ==
    LET piece == g.board[s]
        forward == IF piece.player = "white" THEN 1 ELSE 0 - 1
        home == IF piece.player = "white" THEN 1 ELSE 6
    IN  IF piece.kind = "pawn"
            THEN \/ /\ Attacks(g.board, s, t)
                    /\ \/ g.board[t].player = Opponent(piece.player)
                       \/ t = g.en_passant /\ g.board[t] = NoPiece
                 \/ /\ col(t) = col(s)
                    /\ g.board[t] = NoPiece
                    /\ \/ row(t) = row(s) + forward
                       \/ /\ row(s) = home
                          /\ row(t) = row(s) + 2 * forward
                          /\ g.board[Space(row(s) + forward, col(s))] = NoPiece
            ELSE Attacks(g.board, s, t) /\ g.board[t].player # piece.player

\* The side to move has a move that leaves its king unattacked.
HasLegalMove(g) ==
    \E s \in Spaces :
        /\ g.board[s].player = player_of(g)
        /\ \E t \in Spaces :
              /\ Reaches(g, s, t)
              /\ ~InCheck(BoardAfter(g.board, s, t), player_of(g))

\* main has run find_moves on the position of game.
PositionExamined == pc \notin {"loop", "offer", "repeated"}

\* C24: main ends the game as a checkmate exactly when the side to move has
\* no legal move and its king is attacked, and as a stalemate exactly when
\* it has no legal move and its king is not attacked; neither is announced
\* while the side to move has a legal move.
C24_MateAndStalemateAnnounced ==
    /\ pc = "checkmate" =>
          ~HasLegalMove(game) /\ InCheck(game.board, player_of(game))
    /\ pc = "stalemate" =>
          ~HasLegalMove(game) /\ ~InCheck(game.board, player_of(game))
    /\ (PositionExamined /\ ~HasLegalMove(game)) =>
          pc = IF InCheck(game.board, player_of(game))
                   THEN "checkmate"
                   ELSE "stalemate"

(***************************************************************************)
(* The draw rules of main.                                                 *)
(***************************************************************************)
\* main has the legal moves of the position of game, and there is one.
MovesFound ==
    pc \in {"input", "claim", "fivefold", "seventy_five"} /\ moves # {}

\* The number of times the position of game has come.
RepetitionCount == Cardinality(SamePositions)

\* C25: when the side to move has a legal move, with a repetition count of
\* 5 or more the game has ended in a draw; with a count of 3 or 4 a move is
\* asked for only once the claim of a draw by repetition has been put to the
\* players; with a count below 3 no such claim is put.
C25_RepetitionDrawAndClaim ==
    MovesFound =>
        /\ RepetitionCount >= 5 => pc = "fivefold"
        /\ RepetitionCount \in {3, 4} =>
              \/ pc = "seventy_five"
              \/ "repetition" \in draw_claimed_args
        /\ RepetitionCount < 3 =>
              /\ pc # "fivefold"
              /\ "repetition" \notin draw_claimed_args

\* The position of game has come for the fifth time and the game is drawn.
C25_FifthTime == pc = "fivefold" /\ RepetitionCount = 5

\* The position has come for the fourth time and the claim is put.
C25_FourthTime == pc = "claim" /\ RepetitionCount = 4

\* The half-move clock of the position of game.
HalfMoveClock == game.moves_since_pawn_move_or_capture

\* C26: when the side to move has a legal move, with a half-move clock of
\* 150 or more the game has ended in a draw; with a clock from 100 to 149 a
\* move is asked for only once the claim of a draw by the fifty-move rule
\* has been put to the players; with a clock below 100 no such claim is put.
C26_FiftyAndSeventyFiveMoves ==
    MovesFound =>
        /\ HalfMoveClock >= 150 => pc \in {"seventy_five", "fivefold"}
        /\ HalfMoveClock \in 100 .. 149 =>
              \/ pc = "fivefold"
              \/ "fifty_moves" \in draw_claimed_args
        /\ HalfMoveClock < 100 =>
              /\ pc # "seventy_five"
              /\ "fifty_moves" \notin draw_claimed_args

\* The clock has come to 150 and the game is drawn.
C26_SeventyFiveMovesDraw == pc = "seventy_five" /\ HalfMoveClock = 150

\* The clock stands at 100 and the claim is put.
C26_FiftyMovesClaim == pc = "claim" /\ HalfMoveClock = 100

\* The clock stands at 99 and a move is asked for.
C26_NoClaimYet ==
    pc = "input" /\ HalfMoveClock = 99 /\ draw_claimed_args = {}

\* The legal moves that a request names: the same piece, the same
\* destination, and the row and the column of origin where the request
\* gives them.
Named(request, legal) ==
    {m \in legal :
        /\ m.piece = request.piece
        /\ m.end = request.end
        /\ request.start_row \in {NoCoord, row(m.start)}
        /\ request.start_col \in {NoCoord, col(m.start)}}

\* The request names exactly one (start, end) pair, and a move of that pair
\* carries the promotion asked for.
NamesOneMove(request, legal, promotion) ==
    /\ Cardinality({<<m.start, m.end>> : m \in Named(request, legal)}) = 1
    /\ \E m \in Named(request, legal) : m.promotion = promotion

\* The lines that ask for a move.
MoveInputs(legal) ==
    {parsed_input \in TypedInputs(legal) :
        parsed_input.kind \in {"ordinary_move", "castle"}}

\* C27: at the prompt for a move, for every line that asks for a move:
\* find_move returns a move, one that the request names, when the request
\* names exactly one (start, end) pair among the legal moves and a move of
\* that pair carries the promotion asked for; in every other case it raises
\* MoveError.
C27_FindMoveUniqueOrMoveError ==
    pc = "input" =>
        \A parsed_input \in MoveInputs(moves) :
            LET request == requested_move(parsed_input, game)
            IN  \A promoted \in IF asks_promotion(request)
                                    THEN PROMOTION_OPTIONS ELSE {None} :
                    IF NamesOneMove(request, moves,
                                    wanted_promotion(request, promoted))
                       THEN /\ ~find_move_raises_MoveError(request, moves)
                            /\ ~find_move_raises_StopIteration(request, moves,
                                                               promoted)
                            /\ find_move(request, moves, promoted)
                                  \in Named(request, moves)
                       ELSE find_move_raises_MoveError(request, moves)

\* The rows that the pawn on s has advanced to reach t, as its side sees
\* the board.
RowsForward(g, s, t) ==
    perspective(g.board[s].player, row(t)) -
        perspective(g.board[s].player, row(s))

\* The pawn on s stays in its column and comes onto an empty square, one row
\* forward, or two rows forward from its starting rank over an empty square.
PawnAdvance(g, s, t) ==
    /\ col(t) = col(s)
    /\ g.board[t] = NoPiece
    /\ \/ RowsForward(g, s, t) = 1
       \/ /\ RowsForward(g, s, t) = 2
          /\ perspective(g.board[s].player, row(s)) = 1
          /\ g.board[Space((row(s) + row(t)) \div 2, col(s))] = NoPiece

\* The pawn on s goes one row forward and one column sideways, onto an enemy
\* piece or onto the en-passant target of the position.
PawnTakes(g, s, t) ==
    /\ RowsForward(g, s, t) = 1
    /\ abs(col(t) - col(s)) = 1
    /\ \/ g.board[t].player = Opponent(g.board[s].player)
       \/ t = g.en_passant

\* main has a position, the first or one that a move has made, and is to
\* look for its moves.
PositionMade == pc = "loop"

\* C28: in every position that main comes to, for every pawn on the board
\* and every square, is_legal accepts the move of the pawn to the square
\* exactly when it is an advance in its column onto an empty square (one
\* row, or two rows from the starting rank over an empty square) or a step
\* one row forward and one column sideways onto an enemy piece or the
\* en-passant target.
C28_PawnMovesAccepted ==
    PositionMade =>
        \A s \in Spaces :
            game.board[s].kind = "pawn" =>
                \A t \in Spaces :
                    is_legal(Move(game.board[s], s, t, None), game)
                        <=> PawnAdvance(game, s, t) \/ PawnTakes(game, s, t)

\* A pawn may take in passing, a pawn may advance two rows, and a pawn on
\* its starting rank may not because of a piece in its way.
C28_PawnMovesOfEveryKind ==
    /\ PositionMade
    /\ \E s \in Spaces :
          /\ game.board[s].kind = "pawn"
          /\ game.en_passant \in Spaces
          /\ is_legal(Move(game.board[s], s, game.en_passant, None), game)
    /\ \E s, t \in Spaces :
          /\ game.board[s].kind = "pawn"
          /\ abs(row(t) - row(s)) = 2
          /\ is_legal(Move(game.board[s], s, t, None), game)
    /\ \E s, t \in Spaces :
          /\ game.board[s].kind = "pawn"
          /\ perspective(game.board[s].player, row(s)) = 1
          /\ RowsForward(game, s, t) = 2
          /\ col(s) = col(t)
          /\ ~is_legal(Move(game.board[s], s, t, None), game)

\* get_intervening_spaces yields, for every pair of squares, the squares
\* strictly between them on their row, column or diagonal, and nothing for
\* a pair that is on none.
InterveningSpacesAreBetween ==
    \A s, t \in Spaces : intervening_spaces[s][t] = Between(s, t)

\* A piece stands strictly between s and t.
PieceBetween(board, s, t) == \E u \in Between(s, t) : board[u] # NoPiece

\* C29: get_intervening_spaces yields exactly the squares strictly between
\* the start and the end of a move on a row, a column or a diagonal, in both
\* directions, and nothing for any other move; in every position that main
\* comes to, is_legal rejects (and does not fail on) every move of a rook,
\* bishop, queen or king with a piece strictly between its start and its
\* end, and accepts a knight's move exactly when it is a knight's jump onto
\* a square that holds no piece of its own side.
C29_InterveningSpacesBlock ==
    /\ InterveningSpacesAreBetween
    /\ PositionMade =>
          \A s \in {u \in Spaces : game.board[u] # NoPiece} :
          \A t \in Spaces :
              LET m == Move(game.board[s], s, t, None)
              IN  /\ (/\ m.piece.kind \in {"rook", "bishop", "queen", "king"}
                      /\ PieceBetween(game.board, s, t))
                         => ~is_legal(m, game) /\ ~is_legal_raises(m, game)
                  /\ m.piece.kind = "knight" =>
                        (is_legal(m, game) <=>
                            /\ {abs(row(t) - row(s)), abs(col(t) - col(s))}
                                  = {1, 2}
                            /\ game.board[t].player # m.piece.player)

\* In a position that a move has made, a queen has a piece in her way on a
\* 135-degree diagonal to a square that she could otherwise go to, and a
\* knight jumps over the pieces around it.
C29_QueenBlockedKnightJumps ==
    /\ PositionMade
    /\ played # NoMove
    /\ \E s, t \in Spaces :
          /\ game.board[s].kind = "queen"
          /\ is_diagonal_135(Move(game.board[s], s, t, None))
          /\ PieceBetween(game.board, s, t)
          /\ game.board[t].player # game.board[s].player
    /\ \E s, t \in Spaces :
          /\ game.board[s].kind = "knight"
          /\ is_legal(Move(game.board[s], s, t, None), game)
          /\ \A u \in Spaces :
                abs(row(u) - row(s)) <= 1 /\ abs(col(u) - col(s)) <= 1
                    => game.board[u] # NoPiece

\* Game.move has returned the position of game: it was called on source with
\* the move played.
MoveReturned == played # NoMove /\ game.board # source.board

\* C30: the position that Game.move returns has a move counter one more than
\* the position it was called on, its side to move is the other side of
\* that position and its other side the one that has moved; the piece moved
\* is one of the side that was to move.  Before any move the counter is 0
\* and white is to move.
C30_TurnsAlternate ==
    /\ played = NoMove =>
          /\ game.move_num = 0
          /\ player_of(game) = PLAYERS[1]
    /\ MoveReturned =>
          /\ game.move_num = source.move_num + 1
          /\ player_of(game) = other_player_of(source)
          /\ other_player_of(game) = player_of(source)
          /\ player_of(game) # player_of(source)
          /\ played.piece.player = player_of(source)

\* White has moved, black has moved, and white has moved again.
C30_ThreeMovesMade ==
    /\ MoveReturned
    /\ game.move_num = 3
    /\ played.piece.player = "white"
    /\ player_of(game) = "black"

(***************************************************************************)
(* The rights of the side that did not move.                               *)
(***************************************************************************)
\* C31: the position that Game.move returns gives the side that did not
\* move the castle rights that it had in the position moved from, whatever
\* the move has taken.
C31_OtherSideKeepsItsRights ==
    MoveReturned =>
        game.castle_rights[other_player_of(source)] =
            source.castle_rights[other_player_of(source)]

\* The move has taken a rook on its original square, and the side of the
\* rook held the right of that wing.
C31_RookTakenOnItsCorner ==
    /\ MoveReturned
    /\ \E wing \in {"kingside", "queenside"} :
          /\ played.end = Corner(other_player_of(source), wing)
          /\ source.board[played.end] =
                Piece("rook", other_player_of(source))
          /\ wing \in source.castle_rights[other_player_of(source)]
          /\ wing \in game.castle_rights[other_player_of(source)]

(***************************************************************************)
(* The king of a side that may castle.                                     *)
(***************************************************************************)
\* C32: in every position reached from the standard start by moves that
\* find_moves yielded, a side that holds a castle right has its king on the
\* square where it began, column 4 of its back rank.
C32_RightsHeldOnlyWithKingAtHome ==
    \A player \in {"white", "black"} :
        game.castle_rights[player] # {} =>
            game.board[KingStart(player)] = Piece("king", player)

\* A king that was on its original square with a right of its side has left
\* it, not by castling, and its side holds no right; the other side holds
\* one.
C32_KingLeftHome ==
    /\ MoveReturned
    /\ played.piece.kind = "king"
    /\ ~is_castle(played)
    /\ played.start = KingStart(played.piece.player)
    /\ source.castle_rights[played.piece.player] # {}
    /\ game.castle_rights[played.piece.player] = {}
    /\ game.castle_rights[player_of(game)] # {}

(***************************************************************************)
(* The calls that only look at a position.                                 *)
(***************************************************************************)
\* main is to call find_moves on the position of game, and king_is_in_check
\* after it when there is no move.
LooksAtThePosition == pc = "loop"

C34_NoPawnOnTheFarRanks ==
    /\ \A s \in Spaces :
          game.board[s].kind = "pawn" => row(s) \notin {0, BOARD_SIZE - 1}
    /\ (/\ MoveReturned
        /\ played.piece.kind = "pawn"
        /\ row(played.end) = FarRank(played.piece.player)) =>
            /\ game.board[played.end].player = played.piece.player
            /\ game.board[played.end].kind \in
                  {"rook", "knight", "bishop", "queen"}
            /\ game.board[played.end].kind = played.promotion

\* A pawn has gone to its far rank and a knight of its side stands there.
C34_KnightForAPawn ==
    /\ MoveReturned
    /\ played.piece.kind = "pawn"
    /\ row(played.end) = FarRank(played.piece.player)
    /\ game.board[played.end] = Piece("knight", played.piece.player)

(***************************************************************************)
(* The en-passant target of a position.                                    *)
(***************************************************************************)
\* The square beside the en-passant target of g in its column, one row
\* nearer to the back rank of the side to move.
BehindTheTarget(g) ==
    Space(IF player_of(g) = "white" THEN row(g.en_passant) - 1
                                    ELSE row(g.en_passant) + 1,
          col(g.en_passant))

\* C35: where the position has an en-passant target, the target square is
\* empty and the square in its column one row nearer to the back rank of
\* the side to move holds a pawn of the other side; where Game.move has
\* just returned the position, that pawn is the piece that moved, by two
\* rows over the target; and every pawn of the side to move that is_legal
\* lets onto the target comes from a neighbouring column.
C35_TargetBehindThePawn ==
    game.en_passant \in Spaces =>
        /\ game.board[game.en_passant] = NoPiece
        /\ game.board[BehindTheTarget(game)] =
              Piece("pawn", other_player_of(game))
        /\ MoveReturned =>
              /\ played.piece = Piece("pawn", other_player_of(game))
              /\ played.end = BehindTheTarget(game)
              /\ col(played.start) = col(game.en_passant)
              /\ abs(row(played.end) - row(played.start)) = 2
              /\ game.en_passant \in Between(played.start, played.end)
        /\ \A s \in Spaces :
              (/\ game.board[s] = Piece("pawn", player_of(game))
               /\ is_legal(Move(game.board[s], s, game.en_passant, None),
                           game))
                  => abs(col(s) - col(game.en_passant)) = 1

\* A pawn has just advanced two rows, the position has the target, and a
\* pawn of the side to move may step onto it from the next column.
C35_TargetWithinReach ==
    /\ MoveReturned
    /\ game.en_passant \in Spaces
    /\ \E s \in Spaces :
          /\ game.board[s] = Piece("pawn", player_of(game))
          /\ abs(col(s) - col(game.en_passant)) = 1
          /\ is_legal(Move(game.board[s], s, game.en_passant, None), game)

====
